---- MODULE Spec2Model ----
(***************************************************************************)
(* Model of the elicitation / generation / verification pipeline of the    *)
(* MLTC enumerator backend (src/backend).                                  *)
(*                                                                         *)
(* Text is modelled as a sequence of character codes, so that str.lower()  *)
(* and str.strip() are real conversions.  Scores are kept as integers:     *)
(* ranking scores in hundredths, plausibility scores in ten-thousandths.   *)
(*                                                                         *)
(* The completion provider is an external collaborator: a call either      *)
(* raises or returns a payload; which one is a nondeterministic choice.    *)
(***************************************************************************)
EXTENDS Integers, Sequences, FiniteSets, TLC

VARIABLES
    \* ---- POST /generate (routers/generate.py, services/threat_generator.py)
    genPc,            \* "idle" | "gathering" | "done"
    genRequest,       \* the ContextEnumeration of the request (list sizes)
    genTasks,         \* number of strategy coroutines created
    genCalls,         \* provider calls issued by the request
    threat_results,   \* per strategy: pending, an exception, or a list of chains
    all_threats,      \* the merged list, in task order
    unique_threats,   \* the merged list after _deduplicate_threats
    sorted_threats,   \* the list _prioritize_threats returns
    threat_scores,    \* the sort keys: threat_score of each deduplicated chain
    genResponse,      \* the HTTP response of the request
    \* ---- POST /verify/filter (routers/verify.py, services/threat_verifier.py)
    fltPc,            \* "idle" | "analyzing" | "done"
    fltRequest,       \* threat_chains and verification_answers of the request
    fltIndex,         \* position of the loop over threat_chains
    filtered_threats, \* the FilteredThreatChain list built so far
    fltCalledFor,     \* positions of the chains a provider call was issued for
    fltResponse,      \* the HTTP response of the request
    \* ---- POST /refine and POST /enumerate (routers/chat_refine.py, routers/enumerate.py)
    last_questions_by_dfd, \* the module-level dict _last_questions_by_dfd
    providerStubbed,  \* TRUE: the provider's completion is a function of the prompt
    providerMemo,     \* prompt -> completion, as far as the stubbed provider was asked
    chatPc,           \* "idle" | "modular" | "legacy" | "extraction" | "followup" |
                      \* "qa" | "enumerating" | "done"
    chatTurn,         \* number of requests received so far
    chatRequest,      \* the request being served
    chatLocal,        \* locals of the handler across its awaits
    modular_results,  \* results of the per-attack-type coroutines
    chatPrompts,      \* prompts sent to the provider by the request
    chatResponse,     \* the response of the request
    prevRequest,      \* the request before this one
    prevResponse,     \* and its response
    chatReplies,      \* completions the provider gave to the request, in order
    prevPrompts,      \* prompts sent by the request before this one
    mapBefore,        \* _last_questions_by_dfd as the request found it
    \* ---- POST /verify/questions (routers/verify.py, services/threat_verifier.py)
    vqPc,             \* "idle" | "asking" | "done"
    vqRequest,        \* threat_chains of the request
    vqIndex,          \* position of the loop over threat_chains
    verification_questions, \* the ThreatVerificationQuestion list built so far
    vqReplies,        \* the completion the provider gave for each chain asked about
    vqResponse,       \* the HTTP response of the request
    \* ---- get_llm_client (dependencies.py)
    llm_client_instance, \* the module-level handle: 0 is None, n the n-th client built
    client_init_lock, \* 0: free, else the caller holding the asyncio.Lock
    callerPc,         \* per caller: position inside get_llm_client
    callerClient,     \* per caller: its local variable client (0: unset)
    callerCalls,      \* per caller: calls of get_llm_client begun
    constructions,    \* LLMClient objects constructed so far
    initFailures,     \* constructions that raised so far
    received,         \* the handles callers were given so far
    \* ---- LLMClient.chat_completion_json and the json.loads of its caller
    unwrapPc,         \* "idle" | "returned" | "raised" | "parsed"
    raw_content,      \* response.choices[0].message.content
    cleaned_content,  \* the text chat_completion_json returns
    parsed            \* outcome of the caller's json.loads

genVars == <<genPc, genRequest, genTasks, genCalls, threat_results, all_threats,
             unique_threats, sorted_threats, threat_scores, genResponse>>

fltVars == <<fltPc, fltRequest, fltIndex, filtered_threats, fltCalledFor, fltResponse>>

chatVars == <<last_questions_by_dfd, providerStubbed, providerMemo, chatPc, chatTurn,
              chatRequest, chatLocal, modular_results, chatPrompts, chatResponse,
              prevRequest, prevResponse, chatReplies, prevPrompts, mapBefore>>

vqVars == <<vqPc, vqRequest, vqIndex, verification_questions, vqReplies, vqResponse>>

clientVars == <<llm_client_instance, client_init_lock, callerPc, callerClient,
                callerCalls, constructions, initFailures, received>>

unwrapVars == <<unwrapPc, raw_content, cleaned_content, parsed>>

vars == <<genVars, fltVars, chatVars, vqVars, clientVars, unwrapVars>>

\* what an endpoint leaves alone: the state of the other endpoints
notGenVars == <<fltVars, chatVars, vqVars, clientVars, unwrapVars>>
notFltVars == <<genVars, chatVars, vqVars, clientVars, unwrapVars>>
notChatVars == <<genVars, fltVars, vqVars, clientVars, unwrapVars>>
notVqVars == <<genVars, fltVars, chatVars, clientVars, unwrapVars>>
notClientVars == <<genVars, fltVars, chatVars, vqVars, unwrapVars>>
notUnwrapVars == <<genVars, fltVars, chatVars, vqVars, clientVars>>

-----------------------------------------------------------------------------
(* Bounds of the model *)

\* number of distinct base names in the pool of chains a provider may return
NumLetters == 16
\* longest list of chains one strategy's completion carries
MaxPerStrategy == 4
\* longest threat_chains list of a filter request
MaxFilterChains == 3
\* number of elicitation requests one behaviour receives
MaxTurns == 2
\* number of concurrent callers of get_llm_client
NumCallers == 3
\* calls of get_llm_client one caller makes
MaxCallsPerCaller == 2
\* constructions of the client that raise
MaxInitFailures == 1

-----------------------------------------------------------------------------
(* Text helpers *)

Range(s) == {s[i] : i \in DOMAIN s}

SPACE == <<32>>

\* str.lower() on ASCII text
LowerChar(c) == IF c \in 65..90 THEN c + 32 ELSE c
Lower(s) == [i \in DOMAIN s |-> LowerChar(s[i])]

\* str.strip(): leading and trailing whitespace removed
IsSpace(c) == c \in {32, 9, 10, 11, 12, 13}
RECURSIVE LStrip(_)
LStrip(s) == IF s # <<>> /\ IsSpace(Head(s)) THEN LStrip(Tail(s)) ELSE s
RECURSIVE RStrip(_)
RStrip(s) == IF s # <<>> /\ IsSpace(s[Len(s)]) THEN RStrip(SubSeq(s, 1, Len(s) - 1)) ELSE s
Strip(s) == RStrip(LStrip(s))

\* Python's `needle in haystack` on strings
Contains(hay, needle) ==
    \E i \in 1..(Len(hay) - Len(needle) + 1) : SubSeq(hay, i, i + Len(needle) - 1) = needle

Min(a, b) == IF a <= b THEN a ELSE b

-----------------------------------------------------------------------------
(* schemas.py *)

ThreatCategory ==
    {"spoofing", "tampering", "repudiation", "information_disclosure",
     "denial_of_service", "elevation_of_privilege", "other"}

ThreatChainFields == {"name", "chain", "category", "description", "mitigations"}

\* ThreatChain(**threat): pydantic validation of one raw record
ThreatChainValid(raw) ==
    /\ ThreatChainFields \subseteq DOMAIN raw
    /\ raw.category \in ThreatCategory

-----------------------------------------------------------------------------
(* What the provider may answer to a generation strategy *)

CategoryCycle ==
    <<"information_disclosure", "tampering", "elevation_of_privilege",
      "denial_of_service", "spoofing", "repudiation", "other">>

\* "", "ai", "ml data", "training", "training data model ml"
DescriptionCycle ==
    << <<>>,
       <<97, 105>>,
       <<109, 108, 32, 100, 97, 116, 97>>,
       <<116, 114, 97, 105, 110, 105, 110, 103>>,
       <<116, 114, 97, 105, 110, 105, 110, 103, 32, 100, 97, 116, 97, 32,
         109, 111, 100, 101, 108, 32, 109, 108>> >>

PoolSize == NumLetters + 3

\* names "a", "b", ... then "A" (case variant of "a"), " b" (padded variant of
\* "b") and "C " (both)
PoolName(i) ==
    IF i <= NumLetters THEN <<96 + i>>
    ELSE IF i = NumLetters + 1 THEN <<65>>
    ELSE IF i = NumLetters + 2 THEN <<32, 98>>
    ELSE <<67, 32>>

Steps(n) == [k \in 1..n |-> k]

Pool ==
    [i \in 1..PoolSize |->
        [name        |-> PoolName(i),
         chain       |-> Steps((i % 6) + 1),
         category    |-> CategoryCycle[(i % 7) + 1],
         description |-> DescriptionCycle[(i % 5) + 1],
         mitigations |-> Steps((i * 3) % 8)]]

Window(start, len) == [k \in 1..len |-> Pool[((start + k - 2) % PoolSize) + 1]]

\* a record with an unknown category, and one with `mitigations` missing
BadCategoryRecord ==
    [name |-> <<122>>, chain |-> Steps(2), category |-> "bogus",
     description |-> <<>>, mitigations |-> Steps(1)]
MissingFieldRecord ==
    [name |-> <<121>>, chain |-> Steps(2), category |-> "tampering", description |-> <<>>]

WindowStarts == {1 + k * MaxPerStrategy : k \in 0..4}

\* the "threat_chains" lists of the JSON payloads
ChainPayloads ==
    {Window(s, MaxPerStrategy) : s \in WindowStarts}
    \cup {<<>>, Window(NumLetters + 1, 1)}
    \cup {<<Pool[1], BadCategoryRecord>>, <<MissingFieldRecord, Pool[2]>>}

\* chat_completion_json + json.loads: the call raises, the text is no JSON,
\* the JSON has no "threat_chains" key, or it carries a list of raw records
StrategyCompletions ==
    {[kind |-> "unreachable"], [kind |-> "not_json"], [kind |-> "no_key"]}
    \cup {[kind |-> "json", threat_chains |-> p] : p \in ChainPayloads}

-----------------------------------------------------------------------------
(* services/threat_generator.py *)

\* the tasks list of generate_threat_chains, in submission order
Strategies == <<"ml_specific", "traditional_security", "supply_chain", "data_pipeline">>

\* _generate_*_threats: the result of one strategy coroutine
StrategyResult(completion) ==
    IF completion.kind \in {"unreachable", "not_json"}
    THEN [kind |-> "exception", exception |-> completion.kind]
    ELSE IF completion.kind = "no_key" THEN [kind |-> "list", chains |-> <<>>]
    ELSE IF \E k \in DOMAIN completion.threat_chains :
                ~ThreatChainValid(completion.threat_chains[k])
         THEN [kind |-> "exception", exception |-> "validation"]
         ELSE [kind |-> "list", chains |-> completion.threat_chains]

Pending == [kind |-> "pending"]

IsException(result) == result.kind = "exception"

\* variant: the loop ends at the first failed task instead of skipping it
RECURSIVE CombineUntilFailure(_, _)
CombineUntilFailure(results, i) ==
    IF i > Len(results) \/ IsException(results[i]) THEN <<>>
    ELSE results[i].chains \o CombineUntilFailure(results, i + 1)

\* the combine loop over threat_results
RECURSIVE Combine(_, _)
Combine(results, i) ==
    IF i > Len(results) THEN <<>>
    ELSE (IF IsException(results[i]) THEN <<>> ELSE results[i].chains)
         \o Combine(results, i + 1)

\* variant: the key is the name as given
dedup_key_verbatim(threat) == threat.name

dedup_key(threat) == Strip(Lower(threat.name))

RECURSIVE DedupFrom(_, _, _)
DedupFrom(threats, i, seen_names) ==
    IF i > Len(threats) THEN <<>>
    ELSE LET key == dedup_key(threats[i]) IN
         IF key \notin seen_names
         THEN <<threats[i]>> \o DedupFrom(threats, i + 1, seen_names \cup {key})
         ELSE DedupFrom(threats, i + 1, seen_names)

deduplicate_threats(threats) == DedupFrom(threats, 1, {})

category_weights(category) ==
    CASE category = "information_disclosure" -> 100
      [] category = "tampering" -> 90
      [] category = "elevation_of_privilege" -> 80
      [] category = "denial_of_service" -> 70
      [] category = "spoofing" -> 60
      [] category = "repudiation" -> 50
      [] category = "other" -> 40
      [] OTHER -> 40

\* 'model', 'training', 'adversarial', 'poisoning', 'inference', 'data', 'ml', 'ai'
ml_keywords ==
    { <<109, 111, 100, 101, 108>>,
      <<116, 114, 97, 105, 110, 105, 110, 103>>,
      <<97, 100, 118, 101, 114, 115, 97, 114, 105, 97, 108>>,
      <<112, 111, 105, 115, 111, 110, 105, 110, 103>>,
      <<105, 110, 102, 101, 114, 101, 110, 99, 101>>,
      <<100, 97, 116, 97>>,
      <<109, 108>>,
      <<97, 105>> }

ml_relevance(threat) ==
    LET threat_text == Lower(threat.name \o SPACE \o threat.description)
    IN  Cardinality({kw \in ml_keywords : Contains(threat_text, kw)})

\* variant: the mitigation term is not capped
threat_score_uncapped(threat) ==
    category_weights(threat.category)
    + Min(Len(threat.chain) * 10, 50)
    + Len(threat.mitigations) * 5
    + Min(ml_relevance(threat) * 10, 40)

\* score in hundredths
threat_score(threat) ==
    category_weights(threat.category)
    + Min(Len(threat.chain) * 10, 50)
    + Min(Len(threat.mitigations) * 5, 30)
    + Min(ml_relevance(threat) * 10, 40)

\* sorted(..., key=..., reverse=True): stable, descending; keys computed once
\* variant: an item goes before the items of equal key (ascending sort, reversed)
RECURSIVE InsertDescBeforeEqual(_, _)
InsertDescBeforeEqual(sorted, item) ==
    IF sorted = <<>> THEN <<item>>
    ELSE IF Head(sorted).key > item.key
         THEN <<Head(sorted)>> \o InsertDescBeforeEqual(Tail(sorted), item)
         ELSE <<item>> \o sorted

RECURSIVE InsertDesc(_, _)
InsertDesc(sorted, item) ==
    IF sorted = <<>> THEN <<item>>
    ELSE IF Head(sorted).key >= item.key
         THEN <<Head(sorted)>> \o InsertDesc(Tail(sorted), item)
         ELSE <<item>> \o sorted

RECURSIVE SortKeyedDesc(_, _, _)
SortKeyedDesc(keyed, i, acc) ==
    IF i > Len(keyed) THEN acc
    ELSE SortKeyedDesc(keyed, i + 1, InsertDesc(acc, keyed[i]))

SortedByKeyDesc(keyed) ==
    LET s == SortKeyedDesc(keyed, 1, <<>>) IN [k \in DOMAIN s |-> s[k].item]

prioritize_threats(threats) ==
    SortedByKeyDesc([k \in DOMAIN threats |->
                        [key |-> threat_score(threats[k]), item |-> threats[k]]])

\* the [:15] slice of generate_threat_chains
TopLimit == 15

\* variant: slice bound off by one
TruncateInclusive(threats, n) == SubSeq(threats, 1, Min(Len(threats), n + 1))

Truncate(threats, n) == SubSeq(threats, 1, Min(Len(threats), n))

-----------------------------------------------------------------------------
(* routers/generate.py: POST /generate *)

GenRequests ==
    {[attackers |-> 0, entry_points |-> 0, assets |-> 0],
     [attackers |-> 1, entry_points |-> 0, assets |-> 0],
     [attackers |-> 0, entry_points |-> 1, assets |-> 1]}

GenIdle ==
    /\ genPc = "idle"
    /\ genRequest = [attackers |-> 0, entry_points |-> 0, assets |-> 0]
    /\ genTasks = 0
    /\ genCalls = 0
    /\ threat_results = [s \in DOMAIN Strategies |-> Pending]
    /\ all_threats = <<>>
    /\ unique_threats = <<>>
    /\ sorted_threats = <<>>
    /\ threat_scores = <<>>
    /\ genResponse = [status |-> 0]

\* variant: the test of the asset list is inverted
InsufficientContextInverted(request) ==
    request.attackers = 0 /\ request.entry_points = 0 /\ request.assets > 0

InsufficientContext(request) ==
    request.attackers = 0 /\ request.entry_points = 0 /\ request.assets = 0

\* the `except Exception` of the endpoint also catches its own HTTPException(400)
GenerateRejected ==
    /\ genPc = "idle"
    /\ \E request \in GenRequests :
        /\ InsufficientContext(request)
        /\ genRequest' = request
    /\ genPc' = "done"
    /\ genResponse' = [status |-> 500, cause |-> 400]
    /\ UNCHANGED <<genTasks, genCalls, threat_results, all_threats, unique_threats,
                   sorted_threats, threat_scores>>
    /\ UNCHANGED notGenVars

\* validation passes: generate_threat_chains builds its four coroutines
GenerateAccepted ==
    /\ genPc = "idle"
    /\ \E request \in GenRequests :
        /\ ~InsufficientContext(request)
        /\ genRequest' = request
    /\ genPc' = "gathering"
    /\ genTasks' = Len(Strategies)
    /\ UNCHANGED <<genCalls, threat_results, all_threats, unique_threats, sorted_threats,
                   threat_scores, genResponse>>
    /\ UNCHANGED notGenVars

\* one strategy coroutine runs to its end (asyncio.gather, any completion order)
StrategyCompletes(s) ==
    /\ genPc = "gathering"
    /\ threat_results[s] = Pending
    /\ \E completion \in StrategyCompletions :
        threat_results' = [threat_results EXCEPT ![s] = StrategyResult(completion)]
    /\ genCalls' = genCalls + 1
    /\ UNCHANGED <<genPc, genRequest, genTasks, all_threats, unique_threats, sorted_threats,
                   threat_scores, genResponse>>
    /\ UNCHANGED notGenVars

\* gather has returned: combine, deduplicate, prioritize, truncate, respond
GenerateFanIn ==
    /\ genPc = "gathering"
    /\ \A s \in DOMAIN Strategies : threat_results[s] # Pending
    /\ LET merged == Combine(threat_results, 1)
           unique == deduplicate_threats(merged)
           ranked == prioritize_threats(unique)
           prioritized_threats == Truncate(ranked, TopLimit)
       IN  /\ all_threats' = merged
           /\ unique_threats' = unique
           /\ sorted_threats' = ranked
           /\ threat_scores' = [k \in DOMAIN unique |-> threat_score(unique[k])]
           /\ genResponse' = [status |-> 200, threat_chains |-> prioritized_threats]
    /\ genPc' = "done"
    /\ UNCHANGED <<genRequest, genTasks, genCalls, threat_results>>
    /\ UNCHANGED notGenVars

GenNext ==
    \/ GenerateRejected
    \/ GenerateAccepted
    \/ \E s \in DOMAIN Strategies : StrategyCompletes(s)
    \/ GenerateFanIn

-----------------------------------------------------------------------------
(* services/threat_verifier.py and routers/verify.py: POST /verify/filter *)

\* plausibility scores are in ten-thousandths: 0.3 and 0.5
KeepThreshold == 3000
NeutralScore == 5000

\* the chains a filter request may carry: "a", "b" and "A"
FilterPool == {Pool[1], Pool[2], Pool[NumLetters + 1]}

BoundedSeq(S, n) == UNION {[1..k -> S] : k \in 0..n}

Answer(name) == [threat_name |-> name, question_id |-> 1, selected_option_id |-> 1]

\* answers for "a", for "b", and for "zz", which names no chain of the pool
AnswerLists ==
    { <<>>,
      <<Answer(<<97>>)>>,
      <<Answer(<<98>>), Answer(<<97>>), Answer(<<98>>)>>,
      <<Answer(<<122, 122>>)>>,
      <<Answer(<<122, 122>>), Answer(<<98>>)>> }

\* request.context is a ContextEnumeration, as in a generation request
FilterRequests ==
    [threat_chains : BoundedSeq(FilterPool, MaxFilterChains),
     verification_answers : AnswerLists,
     context : GenRequests]

\* what the plausibility-assessment call may give: it raises, its text is no
\* JSON, "plausibility_score" is absent, is no number, or is a number
AssessmentCompletions ==
    {[kind |-> "unreachable"], [kind |-> "not_json"], [kind |-> "no_score"],
     [kind |-> "not_a_number"]}
    \cup {[kind |-> "score", plausibility_score |-> v] : v \in {-1, 2999, 3000, 8000, 12000}}

\* variant: every answer of the request is taken, whatever chain it names
all_answers(threat, verification_answers) == verification_answers

\* answers_by_threat.get(threat.name, [])
threat_answers(threat, verification_answers) ==
    SelectSeq(verification_answers, LAMBDA answer : answer.threat_name = threat.name)

\* variant: the threshold itself is excluded
kept_above(plausibility_score) == plausibility_score > KeepThreshold

\* kept = plausibility_score >= 0.3
kept_decision(plausibility_score) == plausibility_score >= KeepThreshold

NeutralFilteredThreat(threat) ==
    [threat_chain |-> threat, plausibility_score |-> NeutralScore,
     reasoning |-> "no_answers", kept |-> TRUE]

AssessmentFails(completion) ==
    completion.kind \in {"unreachable", "not_json", "not_a_number"}

\* float(data.get("plausibility_score", 0.5))
plausibility_of(completion) ==
    IF completion.kind = "score" THEN completion.plausibility_score ELSE NeutralScore

\* variant: the result type takes any number
FilteredThreatChainUnchecked(plausibility_score) == TRUE

\* the result type FilteredThreatChain holds a plausibility score in [0,1], declared
\* the way schemas.py declares its other [0,1] fields (ge=0.0, le=1.0): constructing
\* it with a number outside raises a validation error
FilteredThreatChainValid(plausibility_score) == plausibility_score \in 0..10000

\* the call, the parsing, the conversion or the construction of the result raises
AnalysisRaises(completion) ==
    \/ AssessmentFails(completion)
    \/ ~FilteredThreatChainValid(plausibility_of(completion))

\* _analyze_threat_plausibility after a completion that does not raise
AssessedFilteredThreat(threat, completion) ==
    LET plausibility_score == plausibility_of(completion)
    IN  [threat_chain |-> threat, plausibility_score |-> plausibility_score,
         reasoning |-> "analysis", kept |-> kept_decision(plausibility_score)]

\* variant: the list is left in input order
unsorted_filtered(filtered) == filtered

\* variant: results are held per threat name, so that a name is reported once
RECURSIVE first_per_name(_, _)
first_per_name(filtered, seen) ==
    IF filtered = <<>> THEN <<>>
    ELSE IF Head(filtered).threat_chain.name \in seen
         THEN first_per_name(Tail(filtered), seen)
         ELSE <<Head(filtered)>>
              \o first_per_name(Tail(filtered), seen \cup {Head(filtered).threat_chain.name})

sort_filtered_per_name(filtered) ==
    SortedByKeyDesc([k \in DOMAIN first_per_name(filtered, {}) |->
                        [key |-> first_per_name(filtered, {})[k].plausibility_score,
                         item |-> first_per_name(filtered, {})[k]]])

\* filtered_threats.sort(key=lambda x: x.plausibility_score, reverse=True)
sort_filtered(filtered) ==
    SortedByKeyDesc([k \in DOMAIN filtered |->
                        [key |-> filtered[k].plausibility_score, item |-> filtered[k]]])

\* variant: the kept entries are counted as a set of values
kept_count_distinct(filtered) ==
    Cardinality({filtered[k] : k \in {j \in DOMAIN filtered : filtered[j].kept}})

\* kept_count = sum(1 for ft in filtered_threats if ft.kept)
kept_count(filtered) == Cardinality({k \in DOMAIN filtered : filtered[k].kept})

\* the ThreatFilterResponse of the endpoint
FilterResponse(filtered) ==
    [status |-> 200, filtered_threats |-> filtered,
     kept_count |-> kept_count(filtered),
     removed_count |-> Len(filtered) - kept_count(filtered)]

FltIdle ==
    /\ fltPc = "idle"
    /\ fltRequest = [threat_chains |-> <<>>, verification_answers |-> <<>>,
                     context |-> [attackers |-> 0, entry_points |-> 0, assets |-> 0]]
    /\ fltIndex = 0
    /\ filtered_threats = <<>>
    /\ fltCalledFor = {}
    /\ fltResponse = [status |-> 0]

\* no threat chain: HTTPException(400), caught by the endpoint's own handler
FilterRejected ==
    /\ fltPc = "idle"
    /\ \E request \in FilterRequests :
        /\ request.threat_chains = <<>>
        /\ fltRequest' = request
    /\ fltPc' = "done"
    /\ fltResponse' = [status |-> 500, cause |-> 400]
    /\ UNCHANGED <<fltIndex, filtered_threats, fltCalledFor>>
    /\ UNCHANGED notFltVars

\* no verification answer at all: every chain kept at the neutral score
FilterWithoutAnswers ==
    /\ fltPc = "idle"
    /\ \E request \in FilterRequests :
        /\ request.threat_chains # <<>>
        /\ request.verification_answers = <<>>
        /\ fltRequest' = request
        /\ LET filtered == [k \in DOMAIN request.threat_chains |->
                               NeutralFilteredThreat(request.threat_chains[k])]
           IN  /\ filtered_threats' = filtered
               /\ fltResponse' = FilterResponse(filtered)
    /\ fltPc' = "done"
    /\ UNCHANGED <<fltIndex, fltCalledFor>>
    /\ UNCHANGED notFltVars

\* filter_threats_by_verification is entered
FilterStart ==
    /\ fltPc = "idle"
    /\ \E request \in FilterRequests :
        /\ request.threat_chains # <<>>
        /\ request.verification_answers # <<>>
        /\ fltRequest' = request
    /\ fltPc' = "analyzing"
    /\ fltIndex' = 1
    /\ UNCHANGED <<filtered_threats, fltCalledFor, fltResponse>>
    /\ UNCHANGED notFltVars

\* one round of the loop: a chain without answers gets the neutral entry
AnalyzeWithoutAnswers ==
    /\ fltPc = "analyzing"
    /\ fltIndex <= Len(fltRequest.threat_chains)
    /\ LET threat == fltRequest.threat_chains[fltIndex] IN
        /\ threat_answers(threat, fltRequest.verification_answers) = <<>>
        /\ filtered_threats' = Append(filtered_threats, NeutralFilteredThreat(threat))
    /\ fltIndex' = fltIndex + 1
    /\ UNCHANGED <<fltPc, fltRequest, fltCalledFor, fltResponse>>
    /\ UNCHANGED notFltVars

\* one round of the loop: the assessment call returns a usable completion
AnalyzeWithAnswers ==
    /\ fltPc = "analyzing"
    /\ fltIndex <= Len(fltRequest.threat_chains)
    /\ LET threat == fltRequest.threat_chains[fltIndex] IN
        /\ threat_answers(threat, fltRequest.verification_answers) # <<>>
        /\ \E completion \in AssessmentCompletions :
            /\ ~AnalysisRaises(completion)
            /\ filtered_threats' =
                   Append(filtered_threats, AssessedFilteredThreat(threat, completion))
    /\ fltCalledFor' = fltCalledFor \cup {fltIndex}
    /\ fltIndex' = fltIndex + 1
    /\ UNCHANGED <<fltPc, fltRequest, fltResponse>>
    /\ UNCHANGED notFltVars

\* one round of the loop: the assessment call, the parsing of its text or the
\* construction of the result raises, and the endpoint answers 500
AnalyzeRaises ==
    /\ fltPc = "analyzing"
    /\ fltIndex <= Len(fltRequest.threat_chains)
    /\ LET threat == fltRequest.threat_chains[fltIndex] IN
        /\ threat_answers(threat, fltRequest.verification_answers) # <<>>
        /\ \E completion \in AssessmentCompletions :
            /\ AnalysisRaises(completion)
            /\ fltResponse' = [status |-> 500, cause |-> completion.kind]
    /\ fltCalledFor' = fltCalledFor \cup {fltIndex}
    /\ fltPc' = "done"
    /\ UNCHANGED <<fltRequest, fltIndex, filtered_threats>>
    /\ UNCHANGED notFltVars

\* the loop has ended: sort, count, respond
FilterFinish ==
    /\ fltPc = "analyzing"
    /\ fltIndex > Len(fltRequest.threat_chains)
    /\ filtered_threats' = sort_filtered(filtered_threats)
    /\ fltResponse' = FilterResponse(sort_filtered(filtered_threats))
    /\ fltPc' = "done"
    /\ UNCHANGED <<fltRequest, fltIndex, fltCalledFor>>
    /\ UNCHANGED notFltVars

FltNext ==
    \/ FilterRejected
    \/ FilterWithoutAnswers
    \/ FilterStart
    \/ AnalyzeWithoutAnswers
    \/ AnalyzeWithAnswers
    \/ AnalyzeRaises
    \/ FilterFinish

-----------------------------------------------------------------------------
(* routers/chat_refine.py and routers/enumerate.py: the texts and the provider *)

\* dict.get(key, default) on a JSON object
Get(obj, key, default) == IF key \in DOMAIN obj THEN obj[key] ELSE default

\* "d1", "d2"
Dfds == {<<100, 49>>, <<100, 50>>}

Message(role, content) == [role |-> role, content |-> content]

\* assistant "Q?" then user "U"; a history without assistant turn; one without user turn
HistoryAnswered == <<Message("assistant", <<81, 63>>), Message("user", <<85>>)>>
HistoryNoAssistant == <<Message("user", <<85>>)>>
HistoryNoUser == <<Message("assistant", <<81, 63>>)>>

\* UserAnswer; an absent selected_option_id or custom_answer is the empty text
UserAnswer(question_id, selected_option_id, custom_answer) ==
    [question_id |-> question_id, selected_option_id |-> selected_option_id,
     custom_answer |-> custom_answer]

\* option "o1" of question "q1"; then a custom answer "x" and an answer left blank
SelectedAnswers == <<UserAnswer(<<113, 49>>, <<111, 49>>, <<>>)>>
CustomAnswers ==
    <<UserAnswer(<<113, 49>>, <<>>, <<120>>), UserAnswer(<<102, 49>>, <<>>, <<>>)>>

\* a StructuredAnswer of an earlier round
PriorAnswer == [question |-> <<84, 48>>, extracted_answer |-> <<120>>]

ChatRequest(kind, textual_dfd, history, structured_answers, multiple_choice_answers) ==
    [endpoint |-> kind, textual_dfd |-> textual_dfd, conversation_history |-> history,
     structured_answers |-> structured_answers,
     multiple_choice_answers |-> multiple_choice_answers]

NoRequest == ChatRequest("none", <<>>, <<>>, <<>>, <<>>)

RefineRequests ==
    {ChatRequest("refine", d, <<>>, <<>>, <<>>) : d \in Dfds}
    \cup {ChatRequest("refine", d, HistoryAnswered, <<>>, SelectedAnswers) : d \in Dfds}
    \cup {ChatRequest("refine", <<100, 49>>, <<>>, <<PriorAnswer>>, SelectedAnswers),
          ChatRequest("refine", <<100, 49>>, HistoryAnswered, <<PriorAnswer>>, <<>>),
          ChatRequest("refine", <<100, 49>>, HistoryAnswered, <<>>, CustomAnswers),
          ChatRequest("refine", <<100, 49>>, HistoryNoAssistant, <<>>, <<>>),
          ChatRequest("refine", <<100, 49>>, HistoryNoUser, <<>>, <<>>)}

EnumerateRequests == {ChatRequest("enumerate", <<100, 49>>, <<>>, <<>>, <<>>)}

\* a prompt is the tuple of the values interpolated into its template
Prompt(kind, text, user_text, textual_dfd, history) ==
    [kind |-> kind, text |-> text, user_text |-> user_text, textual_dfd |-> textual_dfd,
     conversation_history |-> history]

\* raw question records of a "questions_with_options" list:
\* q1/"T0" with option o1 "x"; q1/"T1" with option o1 "y"; f1/"T1" without options;
\* a record without "id"; an item that is no JSON object
RawQuestion(id, question, options) == [id |-> id, question |-> question, options |-> options]
RawOption(id, text) == [id |-> id, text |-> text]
QuestionA == RawQuestion(<<113, 49>>, <<84, 48>>, <<RawOption(<<111, 49>>, <<120>>)>>)
QuestionB == RawQuestion(<<113, 49>>, <<84, 49>>, <<RawOption(<<111, 49>>, <<121>>)>>)
QuestionF == [id |-> <<102, 49>>, question |-> <<84, 49>>]
QuestionNoId == [question |-> <<84, 49>>, options |-> <<>>]
NotAnObject == [not_an_object |-> TRUE]

Raises(completion) == completion.kind \in {"unreachable", "not_json"}

ProviderFailures == {[kind |-> "unreachable"], [kind |-> "not_json"]}

JsonCompletion(data) == [kind |-> "json", data |-> data]

QuestionCompletions ==
    ProviderFailures
    \cup {JsonCompletion([other |-> <<>>])}
    \cup {JsonCompletion([questions_with_options |-> l]) :
            l \in {<<>>, <<QuestionA>>, <<QuestionB, QuestionF>>, <<QuestionNoId>>,
                   <<QuestionA, NotAnObject>>}}

\* extraction records: a valid one and one without "question"; the last batch
\* repeats an answer of an earlier round
ExtractedAnswer == [question |-> <<84, 49>>, extracted_answer |-> <<121>>]
ExtractedNoQuestion == [extracted_answer |-> <<121>>]

ExtractionCompletions ==
    ProviderFailures
    \cup {JsonCompletion(d) : d \in
            {[extractions |-> <<ExtractedAnswer>>,
              coverage_assessment |-> [needs_followup |-> TRUE,
                                       missing_information |-> <<115, 101, 99>>]],
             [extractions |-> <<ExtractedAnswer>>,
              coverage_assessment |-> [needs_followup |-> FALSE]],
             [extractions |-> <<>>],
             [coverage_assessment |-> [missing_information |-> <<>>]],
             [extractions |-> <<ExtractedAnswer, ExtractedNoQuestion>>,
              coverage_assessment |-> [needs_followup |-> FALSE]],
             [extractions |-> <<ExtractedAnswer, PriorAnswer>>,
              coverage_assessment |-> [needs_followup |-> FALSE]]}}

\* qa_pairs: a full pair (" q", "a "), a pair with "question" only, one with "answer" only
PairFull == [question |-> <<32, 113>>, answer |-> <<97, 32>>]
PairQuestionOnly == [question |-> <<113>>]
PairAnswerOnly == [answer |-> <<97>>]

QaCompletions ==
    ProviderFailures
    \cup {JsonCompletion([other |-> <<>>])}
    \cup {JsonCompletion([qa_pairs |-> l]) :
            l \in {<<>>, <<PairFull>>, <<PairFull, PairQuestionOnly>>, <<PairAnswerOnly>>}}

\* the JSON of a context enumeration: question and answer lists of the provider's making
EnumerationData(questions, answers) ==
    [attackers |-> <<>>, entry_points |-> <<>>, assets |-> <<>>, assumptions |-> <<>>,
     questions |-> questions, answers |-> answers]

EnumerationCompletions ==
    ProviderFailures
    \cup {JsonCompletion([attackers |-> <<>>])}
    \cup {JsonCompletion(EnumerationData(q, a)) :
            q \in {<<>>, <<<<113>>>>, <<<<113>>, <<84, 48>>>>}, a \in {<<>>, <<<<97>>>>}}

\* the completions the provider may give to a prompt: any, unless it is stubbed
\* and was asked this prompt before
ProviderReplies(prompt, completions) ==
    IF providerStubbed /\ prompt \in DOMAIN providerMemo
    THEN {providerMemo[prompt]}
    ELSE completions

Remember(prompt, completion) ==
    IF providerStubbed THEN (prompt :> completion) @@ providerMemo ELSE providerMemo

-----------------------------------------------------------------------------
(* routers/chat_refine.py: pure parts of the handlers *)

\* the raw list to MultipleChoiceQuestion objects; q_data["id"], q_data["question"],
\* opt["id"], opt["text"] raise KeyError, q_data.get on a non-object AttributeError
QuestionConvertible(q_data) ==
    /\ {"id", "question"} \subseteq DOMAIN q_data
    /\ \A k \in DOMAIN Get(q_data, "options", <<>>) :
         {"id", "text"} \subseteq DOMAIN q_data.options[k]

ConversionRaises(questions_with_options) ==
    \E k \in DOMAIN questions_with_options : ~QuestionConvertible(questions_with_options[k])

MultipleChoiceQuestion(q_data) ==
    [id |-> q_data.id, question |-> q_data.question,
     options |-> [k \in DOMAIN Get(q_data, "options", <<>>) |->
                     [id |-> q_data.options[k].id, text |-> q_data.options[k].text]]]

multiple_choice_questions(questions_with_options) ==
    [k \in DOMAIN questions_with_options |->
        MultipleChoiceQuestion(questions_with_options[k])]

\* questions_map: the last question with a given id wins
QuestionById(questions, question_id) ==
    LET hits == {k \in DOMAIN questions : questions[k].id = question_id} IN
    IF hits = {} THEN [found |-> FALSE]
    ELSE [found |-> TRUE, q |-> questions[CHOOSE k \in hits : \A j \in hits : j <= k]]

OptionText(question, option_id) ==
    LET hits == {k \in DOMAIN question.options : question.options[k].id = option_id} IN
    IF hits = {} THEN option_id
    ELSE question.options[CHOOSE k \in hits : \A j \in hits : j <= k].text

\* "Q: ", "\nA: ", "\n\n", "\n\nMultiple Choice Answers:\n"
TextQ == <<81, 58, 32>>
TextA == <<10, 65, 58, 32>>
TextBlankLine == <<10, 10>>
TextMcHeader ==
    <<10, 10, 77, 117, 108, 116, 105, 112, 108, 101, 32, 67, 104, 111, 105, 99, 101, 32,
      65, 110, 115, 119, 101, 114, 115, 58, 10>>

\* the line of one answer, or <<>> when it has neither custom answer nor option
AnswerLine(answer, questions) ==
    LET hit == QuestionById(questions, answer.question_id)
        question_text == IF hit.found THEN hit.q.question ELSE answer.question_id
    IN  IF answer.custom_answer # <<>>
        THEN <<TextQ \o question_text \o TextA \o answer.custom_answer>>
        ELSE IF answer.selected_option_id # <<>>
        THEN <<TextQ \o question_text \o TextA \o
                (IF hit.found THEN OptionText(hit.q, answer.selected_option_id)
                 ELSE answer.selected_option_id)>>
        ELSE <<>>

RECURSIVE AnswerLines(_, _, _)
AnswerLines(answers, questions, i) ==
    IF i > Len(answers) THEN <<>>
    ELSE AnswerLine(answers[i], questions) \o AnswerLines(answers, questions, i + 1)

\* "\n\n".join(lines)
RECURSIVE JoinBlankLine(_)
JoinBlankLine(lines) ==
    IF lines = <<>> THEN <<>>
    ELSE IF Len(lines) = 1 THEN lines[1]
    ELSE lines[1] \o TextBlankLine \o JoinBlankLine(Tail(lines))

\* _convert_multiple_choice_answers_to_text
convert_multiple_choice_answers_to_text(multiple_choice_answers, questions) ==
    JoinBlankLine(AnswerLines(multiple_choice_answers, questions, 1))

LastContent(history, role) ==
    LET hits == {k \in DOMAIN history : history[k].role = role} IN
    history[CHOOSE k \in hits : \A j \in hits : j <= k].content

HasRole(history, role) == \E k \in DOMAIN history : history[k].role = role

\* _last_questions_by_dfd.get(request.textual_dfd, [])
stored_questions(textual_dfd) ==
    IF textual_dfd \in DOMAIN last_questions_by_dfd
    THEN last_questions_by_dfd[textual_dfd] ELSE <<>>

\* latest_user_response with the multiple choice answers appended
latest_user_response(request) ==
    LET mc_answers_text ==
            convert_multiple_choice_answers_to_text(
                request.multiple_choice_answers, stored_questions(request.textual_dfd))
    IN  LastContent(request.conversation_history, "user")
        \o (IF mc_answers_text # <<>> THEN TextMcHeader \o mc_answers_text ELSE <<>>)

extraction_prompt(request) ==
    Prompt("extraction", LastContent(request.conversation_history, "assistant"),
           latest_user_response(request), request.textual_dfd, <<>>)

followup_prompt(missing_information, request) ==
    Prompt("followup", missing_information, <<>>, request.textual_dfd,
           request.conversation_history)

qa_extraction_prompt(request) ==
    Prompt("qa_extraction", <<>>, <<>>, <<>>, request.conversation_history)

\* "model_poisoning", "evasion_attacks"
AttackTypes == <<"model_poisoning", "evasion_attacks">>

attack_prompt(t, request) ==
    Prompt(AttackTypes[t], <<>>, <<>>, request.textual_dfd, <<>>)

question_generation_prompt(request) ==
    Prompt("legacy_questions", <<>>, <<>>, request.textual_dfd, <<>>)

enumeration_prompt(request) ==
    Prompt("enumeration", <<>>, <<>>, request.textual_dfd, <<>>)

\* StructuredAnswer(**ext)
StructuredAnswerValid(ext) == {"question", "extracted_answer"} \subseteq DOMAIN ext

\* [pair["question"].strip() for pair in qa_pairs if "question" in pair]
questions_of(qa_pairs) ==
    LET kept == SelectSeq(qa_pairs, LAMBDA pair : "question" \in DOMAIN pair)
    IN  [k \in DOMAIN kept |-> Strip(kept[k].question)]

\* [pair["answer"].strip() for pair in qa_pairs if "answer" in pair]
answers_of(qa_pairs) ==
    LET kept == SelectSeq(qa_pairs, LAMBDA pair : "answer" \in DOMAIN pair)
    IN  [k \in DOMAIN kept |-> Strip(kept[k].answer)]

\* variant: a failure is answered as a round of no questions
ErrorAsNoQuestions(error) ==
    [status |-> "need_more_info", multiple_choice_questions |-> <<>>,
     questions |-> <<>>, answers |-> <<>>, structured_answers |-> <<>>]

ErrorResponse(error) == [status |-> "error", error |-> error]

NeedMoreInfo(questions, structured_answers) ==
    [status |-> "need_more_info", multiple_choice_questions |-> questions,
     questions |-> <<>>, answers |-> <<>>, structured_answers |-> structured_answers]

Success(questions, answers, structured_answers) ==
    [status |-> "success", multiple_choice_questions |-> <<>>,
     questions |-> questions, answers |-> answers,
     structured_answers |-> structured_answers]

NoResponse == [status |-> "none"]
NoLocal == [prompt |-> Prompt("none", <<>>, <<>>, <<>>, <<>>)]
-----------------------------------------------------------------------------
(* routers/chat_refine.py: POST /refine; routers/enumerate.py: POST /enumerate *)

ChatIdle ==
    /\ last_questions_by_dfd = <<>>
    /\ providerStubbed \in BOOLEAN
    /\ providerMemo = <<>>
    /\ chatPc = "idle"
    /\ chatTurn = 0
    /\ chatRequest = NoRequest
    /\ chatLocal = NoLocal
    /\ modular_results = [t \in DOMAIN AttackTypes |-> Pending]
    /\ chatPrompts = <<>>
    /\ chatResponse = NoResponse
    /\ prevRequest = NoRequest
    /\ prevResponse = NoResponse
    /\ chatReplies = <<>>
    /\ prevPrompts = <<>>
    /\ mapBefore = <<>>

\* a request arrives once the one before it was answered
Receive(request) ==
    /\ chatPc \in {"idle", "done"}
    /\ chatTurn < MaxTurns
    /\ chatTurn' = chatTurn + 1
    /\ chatRequest' = request
    /\ prevRequest' = chatRequest
    /\ prevResponse' = chatResponse
    /\ chatPrompts' = <<>>
    /\ chatReplies' = <<>>
    /\ prevPrompts' = chatPrompts
    /\ mapBefore' = last_questions_by_dfd

\* a provider call returns: the prompt is recorded, the completion drawn
Completes(prompt, completion) ==
    /\ chatPrompts' = Append(chatPrompts, prompt)
    /\ chatReplies' = Append(chatReplies, completion)
    /\ providerMemo' = Remember(prompt, completion)

\* the handler returns or raises
Respond(response) ==
    /\ chatPc' = "done"
    /\ chatResponse' = response
    /\ chatLocal' = NoLocal

\* variant: the map is rebuilt around the new entry instead of updated
AskQuestionsInFreshMap(questions_with_options, structured_answers) ==
    IF ConversionRaises(questions_with_options)
    THEN /\ Respond(ErrorResponse("conversion"))
         /\ UNCHANGED last_questions_by_dfd
    ELSE /\ last_questions_by_dfd' =
              (chatRequest.textual_dfd :> multiple_choice_questions(questions_with_options))
         /\ Respond(NeedMoreInfo(multiple_choice_questions(questions_with_options),
                                 structured_answers))

\* the tail of both question-asking branches: convert, store, answer need_more_info
AskQuestions(questions_with_options, structured_answers) ==
    IF ConversionRaises(questions_with_options)
    THEN /\ Respond(ErrorResponse("conversion"))
         /\ UNCHANGED last_questions_by_dfd
    ELSE /\ last_questions_by_dfd' =
              (chatRequest.textual_dfd :> multiple_choice_questions(questions_with_options))
              @@ last_questions_by_dfd
         /\ Respond(NeedMoreInfo(multiple_choice_questions(questions_with_options),
                                 structured_answers))

\* refine_with_chat, is_initial: the per-attack-type coroutines are created
RefineInitial ==
    \E request \in RefineRequests :
        /\ Len(request.conversation_history) = 0
        /\ Receive(request)
        /\ chatPc' = "modular"
        /\ modular_results' = [t \in DOMAIN AttackTypes |-> Pending]
        /\ UNCHANGED <<last_questions_by_dfd, providerStubbed, providerMemo, chatLocal,
                       chatResponse>>
        /\ UNCHANGED notChatVars

\* _generate_questions_for_attack_type, from the provider's completion on
ModularTaskCompletes(t) ==
    /\ chatPc = "modular"
    /\ modular_results[t] = Pending
    /\ \E completion \in ProviderReplies(attack_prompt(t, chatRequest), QuestionCompletions) :
        /\ Completes(attack_prompt(t, chatRequest), completion)
        /\ modular_results' =
             [modular_results EXCEPT ![t] =
                IF Raises(completion) THEN [kind |-> "exception"]
                ELSE [kind |-> "dict",
                      questions |-> Get(completion.data, "questions_with_options", <<>>)]]
    /\ UNCHANGED <<last_questions_by_dfd, providerStubbed, chatPc, chatTurn, chatRequest,
                   chatLocal, chatResponse, prevRequest, prevResponse, prevPrompts, mapBefore>>
    /\ UNCHANGED notChatVars

\* variant: the results are taken as they arrive, not by task index
RECURSIVE questions_in_completion_order(_)
questions_in_completion_order(k) ==
    IF k > Len(chatReplies) THEN <<>>
    ELSE (IF Raises(chatReplies[k]) THEN <<>>
          ELSE Get(chatReplies[k].data, "questions_with_options", <<>>))
         \o questions_in_completion_order(k + 1)

\* the aggregation loop of generate_modular_questions
RECURSIVE all_questions(_)
all_questions(t) ==
    IF t > Len(AttackTypes) THEN <<>>
    ELSE (IF modular_results[t].kind = "dict" THEN modular_results[t].questions ELSE <<>>)
         \o all_questions(t + 1)

\* question["attack_type"] = ... raises on an item that is no JSON object
AggregationRaises ==
    \E k \in DOMAIN all_questions(1) : all_questions(1)[k] = NotAnObject

\* gather returns; _handle_initial_chat answers, or falls back to the legacy prompt
ModularFanIn ==
    /\ chatPc = "modular"
    /\ \A t \in DOMAIN AttackTypes : modular_results[t] # Pending
    /\ IF AggregationRaises
       THEN /\ chatPc' = "legacy"
            /\ UNCHANGED <<last_questions_by_dfd, chatLocal, chatResponse>>
       ELSE AskQuestions(all_questions(1), <<>>)
    /\ UNCHANGED <<providerStubbed, providerMemo, chatTurn, chatRequest, modular_results,
                   chatPrompts, chatReplies, prevRequest,
                   prevResponse, prevPrompts, mapBefore>>
    /\ UNCHANGED notChatVars

\* the except branch of _handle_initial_chat, from the provider's completion on
LegacyCompletes ==
    /\ chatPc = "legacy"
    /\ \E completion \in
            ProviderReplies(question_generation_prompt(chatRequest), QuestionCompletions) :
        /\ Completes(question_generation_prompt(chatRequest), completion)
        /\ IF Raises(completion)
           THEN /\ Respond(ErrorResponse("provider"))
                /\ UNCHANGED last_questions_by_dfd
           ELSE AskQuestions(Get(completion.data, "questions_with_options", <<>>), <<>>)
    /\ UNCHANGED <<providerStubbed, chatTurn, chatRequest, modular_results, prevRequest,
                   prevResponse, prevPrompts, mapBefore>>
    /\ UNCHANGED notChatVars

\* refine_with_chat, not is_initial: _handle_followup_chat up to its first await
RefineFollowup ==
    \E request \in RefineRequests :
        /\ Len(request.conversation_history) > 0
        /\ Receive(request)
        /\ IF ~HasRole(request.conversation_history, "user")
           THEN Respond(ErrorResponse("ValueError"))
           ELSE IF ~HasRole(request.conversation_history, "assistant")
           THEN Respond(ErrorResponse("IndexError"))
           ELSE /\ chatPc' = "extraction"
                /\ chatLocal' = [prompt |-> extraction_prompt(request)]
                /\ UNCHANGED chatResponse
        /\ UNCHANGED <<last_questions_by_dfd, providerStubbed, providerMemo,
                       modular_results>>
        /\ UNCHANGED notChatVars

\* variant: an answer already in the list is not added again
structured_answers_deduplicated(structured_answers, new_structured_answers) ==
    structured_answers
    \o SelectSeq(new_structured_answers,
                 LAMBDA ext : \A k \in DOMAIN structured_answers :
                                 structured_answers[k] # ext)

\* all_structured_answers = request.structured_answers + new_structured_answers
all_structured_answers(structured_answers, new_structured_answers) ==
    structured_answers \o new_structured_answers

\* variant: a coverage assessment without the flag counts as sufficient
needs_followup_unless_absent(coverage) == Get(coverage, "needs_followup", FALSE)

\* needs_followup = coverage.get("needs_followup", True)
needs_followup(coverage) == Get(coverage, "needs_followup", TRUE)

\* _handle_followup_chat from the extraction completion to the second await
ExtractionCompletes ==
    /\ chatPc = "extraction"
    /\ \E completion \in ProviderReplies(chatLocal.prompt, ExtractionCompletions) :
        /\ Completes(chatLocal.prompt, completion)
        /\ IF Raises(completion)
           THEN Respond(ErrorResponse("provider"))
           ELSE LET extractions == Get(completion.data, "extractions", <<>>)
                    coverage == Get(completion.data, "coverage_assessment", <<>>)
                    all_answers_of_turn ==
                        all_structured_answers(chatRequest.structured_answers, extractions)
                IN  IF \E k \in DOMAIN extractions : ~StructuredAnswerValid(extractions[k])
                    THEN Respond(ErrorResponse("validation"))
                    ELSE IF needs_followup(coverage)
                    THEN /\ chatPc' = "followup"
                         /\ chatLocal' =
                              [prompt |-> followup_prompt(
                                              Get(coverage, "missing_information", <<>>),
                                              chatRequest),
                               all_structured_answers |-> all_answers_of_turn]
                         /\ UNCHANGED chatResponse
                    ELSE /\ chatPc' = "qa"
                         /\ chatLocal' =
                              [prompt |-> qa_extraction_prompt(chatRequest),
                               all_structured_answers |-> all_answers_of_turn]
                         /\ UNCHANGED chatResponse
    /\ UNCHANGED <<last_questions_by_dfd, providerStubbed, chatTurn, chatRequest,
                   modular_results, prevRequest, prevResponse, prevPrompts, mapBefore>>
    /\ UNCHANGED notChatVars

\* the needs_followup branch, from the follow-up completion on
FollowupCompletes ==
    /\ chatPc = "followup"
    /\ \E completion \in ProviderReplies(chatLocal.prompt, QuestionCompletions) :
        /\ Completes(chatLocal.prompt, completion)
        /\ IF Raises(completion)
           THEN /\ Respond(ErrorResponse("provider"))
                /\ UNCHANGED last_questions_by_dfd
           ELSE AskQuestions(Get(completion.data, "questions_with_options", <<>>),
                             chatLocal.all_structured_answers)
    /\ UNCHANGED <<providerStubbed, chatTurn, chatRequest, modular_results, prevRequest,
                   prevResponse, prevPrompts, mapBefore>>
    /\ UNCHANGED notChatVars

\* the else branch, from the Q&A extraction completion on
QaCompletes ==
    /\ chatPc = "qa"
    /\ \E completion \in ProviderReplies(chatLocal.prompt, QaCompletions) :
        /\ Completes(chatLocal.prompt, completion)
        /\ IF Raises(completion)
           THEN Respond(ErrorResponse("provider"))
           ELSE Respond(Success(questions_of(Get(completion.data, "qa_pairs", <<>>)),
                                answers_of(Get(completion.data, "qa_pairs", <<>>)),
                                chatLocal.all_structured_answers))
    /\ UNCHANGED <<last_questions_by_dfd, providerStubbed, chatTurn, chatRequest,
                   modular_results, prevRequest, prevResponse, prevPrompts, mapBefore>>
    /\ UNCHANGED notChatVars

\* ContextEnumeration.model_validate(data): every list field is required
EnumerationValid(data) ==
    {"attackers", "entry_points", "assets", "assumptions", "questions", "answers"}
        \subseteq DOMAIN data

Enumerated(data) ==
    [status |-> "enumerated", multiple_choice_questions |-> <<>>,
     questions |-> data.questions, answers |-> data.answers, structured_answers |-> <<>>]

\* enumerate_context up to its await
EnumerateStart ==
    \E request \in EnumerateRequests :
        /\ Receive(request)
        /\ chatPc' = "enumerating"
        /\ chatLocal' = [prompt |-> enumeration_prompt(request)]
        /\ UNCHANGED <<last_questions_by_dfd, providerStubbed, providerMemo,
                       modular_results, chatResponse>>
        /\ UNCHANGED notChatVars

\* enumerate_context from the completion on
EnumerateCompletes ==
    /\ chatPc = "enumerating"
    /\ \E completion \in ProviderReplies(chatLocal.prompt, EnumerationCompletions) :
        /\ Completes(chatLocal.prompt, completion)
        /\ IF Raises(completion)
           THEN Respond(ErrorResponse("provider"))
           ELSE IF ~EnumerationValid(completion.data)
           THEN Respond(ErrorResponse("validation"))
           ELSE Respond(Enumerated(completion.data))
    /\ UNCHANGED <<last_questions_by_dfd, providerStubbed, chatTurn, chatRequest,
                   modular_results, prevRequest, prevResponse, prevPrompts, mapBefore>>
    /\ UNCHANGED notChatVars

ChatNext ==
    \/ RefineInitial
    \/ \E t \in DOMAIN AttackTypes : ModularTaskCompletes(t)
    \/ ModularFanIn
    \/ LegacyCompletes
    \/ RefineFollowup
    \/ ExtractionCompletes
    \/ FollowupCompletes
    \/ QaCompletes
    \/ EnumerateStart
    \/ EnumerateCompletes
-----------------------------------------------------------------------------
(* services/threat_verifier.py and routers/verify.py: POST /verify/questions *)

VerificationRequests ==
    [threat_chains : BoundedSeq(FilterPool, MaxFilterChains), context : GenRequests]

\* raw question records of a "questions" list: a full one ("q1", "T0", option
\* "o1"/"x", category "context"); one with neither options nor category; one
\* without "id"
VerificationQuestionFull ==
    [id |-> <<113, 49>>, question |-> <<84, 48>>, category |-> "context",
     options |-> <<[id |-> <<111, 49>>, text |-> <<120>>]>>]
VerificationQuestionBare == [id |-> <<113, 50>>, question |-> <<84, 49>>]
VerificationQuestionNoId == [question |-> <<84, 49>>]

VerificationCompletions ==
    ProviderFailures
    \cup {JsonCompletion([other |-> <<>>])}
    \cup {JsonCompletion([questions |-> l]) :
            l \in {<<VerificationQuestionFull>>,
                   <<VerificationQuestionFull, VerificationQuestionBare>>,
                   <<VerificationQuestionFull, VerificationQuestionNoId>>}}

\* q_data["id"], q_data["question"], opt["id"], opt["text"] must be present
VerificationQuestionConvertible(q_data) ==
    /\ {"id", "question"} \subseteq DOMAIN q_data
    /\ \A k \in DOMAIN Get(q_data, "options", <<>>) :
         {"id", "text"} \subseteq DOMAIN q_data.options[k]

ThreatVerificationQuestion(q_data, threat) ==
    [id |-> q_data.id, threat_name |-> threat.name, question |-> q_data.question,
     options |-> [k \in DOMAIN Get(q_data, "options", <<>>) |->
                     [id |-> q_data.options[k].id, text |-> q_data.options[k].text,
                      is_editable |-> Get(q_data.options[k], "is_editable", TRUE)]],
     category |-> Get(q_data, "category", "feasibility")]

\* _generate_questions_for_threat raises: provider failure, no JSON, or a record
\* that cannot be converted
QuestionsForThreatRaise(completion) ==
    IF Raises(completion) THEN TRUE
    ELSE \E k \in DOMAIN Get(completion.data, "questions", <<>>) :
            ~VerificationQuestionConvertible(completion.data.questions[k])

\* the questions _generate_questions_for_threat returns
threat_questions(completion, threat) ==
    [k \in DOMAIN Get(completion.data, "questions", <<>>) |->
        ThreatVerificationQuestion(completion.data.questions[k], threat)]

VqIdle ==
    /\ vqPc = "idle"
    /\ vqRequest = [threat_chains |-> <<>>,
                    context |-> [attackers |-> 0, entry_points |-> 0, assets |-> 0]]
    /\ vqIndex = 0
    /\ verification_questions = <<>>
    /\ vqReplies = <<>>
    /\ vqResponse = [status |-> 0]

\* no threat chain: HTTPException(400), caught by the endpoint's own handler
VerifyQuestionsRejected ==
    /\ vqPc = "idle"
    /\ \E request \in VerificationRequests :
        /\ request.threat_chains = <<>>
        /\ vqRequest' = request
    /\ vqPc' = "done"
    /\ vqResponse' = [status |-> 500, cause |-> "400"]
    /\ UNCHANGED <<vqIndex, verification_questions, vqReplies>>
    /\ UNCHANGED notVqVars

\* the endpoint enters ThreatVerifier.generate_verification_questions
VerifyQuestionsStart ==
    /\ vqPc = "idle"
    /\ \E request \in VerificationRequests :
        /\ request.threat_chains # <<>>
        /\ vqRequest' = request
    /\ vqPc' = "asking"
    /\ vqIndex' = 1
    /\ UNCHANGED <<verification_questions, vqReplies, vqResponse>>
    /\ UNCHANGED notVqVars

\* one round of the loop: the questions of the chain are appended
QuestionsForThreat ==
    /\ vqPc = "asking"
    /\ vqIndex <= Len(vqRequest.threat_chains)
    /\ \E completion \in VerificationCompletions :
        /\ ~QuestionsForThreatRaise(completion)
        /\ verification_questions' =
             verification_questions
             \o threat_questions(completion, vqRequest.threat_chains[vqIndex])
        /\ vqReplies' = Append(vqReplies, completion)
    /\ vqIndex' = vqIndex + 1
    /\ UNCHANGED <<vqPc, vqRequest, vqResponse>>
    /\ UNCHANGED notVqVars

\* one round of the loop raises: the exception leaves the loop and the endpoint
\* turns it into a 500
QuestionsForThreatRaises ==
    /\ vqPc = "asking"
    /\ vqIndex <= Len(vqRequest.threat_chains)
    /\ \E completion \in VerificationCompletions :
        /\ QuestionsForThreatRaise(completion)
        /\ vqReplies' = Append(vqReplies, completion)
        /\ vqResponse' = [status |-> 500, cause |-> completion.kind]
    /\ vqPc' = "done"
    /\ UNCHANGED <<vqRequest, vqIndex, verification_questions>>
    /\ UNCHANGED notVqVars

\* the loop has ended: respond
VerifyQuestionsFinish ==
    /\ vqPc = "asking"
    /\ vqIndex > Len(vqRequest.threat_chains)
    /\ vqPc' = "done"
    /\ vqResponse' = [status |-> 200, verification_questions |-> verification_questions,
                      total_questions |-> Len(verification_questions)]
    /\ UNCHANGED <<vqRequest, vqIndex, verification_questions, vqReplies>>
    /\ UNCHANGED notVqVars

VqNext ==
    \/ VerifyQuestionsRejected
    \/ VerifyQuestionsStart
    \/ QuestionsForThreat
    \/ QuestionsForThreatRaises
    \/ VerifyQuestionsFinish

-----------------------------------------------------------------------------
(* dependencies.py: get_llm_client. Every statement is a step of its own, so    *)
(* the interleavings include those the event loop can produce between awaits.   *)

Callers == 1..NumCallers

ClientIdle ==
    /\ llm_client_instance = 0
    /\ client_init_lock = 0
    /\ callerPc = [c \in Callers |-> "idle"]
    /\ callerClient = [c \in Callers |-> 0]
    /\ callerCalls = [c \in Callers |-> 0]
    /\ constructions = 0
    /\ initFailures = 0
    /\ received = {}

\* variant: the check inside the lock is left out
second_check_skipped(instance) == TRUE

\* the inner "if llm_client_instance is None"
second_check(instance) == instance = 0

\* a request resolves its dependency
CallGetLlmClient(c) ==
    /\ callerPc[c] = "idle"
    /\ callerCalls[c] < MaxCallsPerCaller
    /\ callerCalls' = [callerCalls EXCEPT ![c] = @ + 1]
    /\ callerPc' = [callerPc EXCEPT ![c] = "first_check"]
    /\ callerClient' = [callerClient EXCEPT ![c] = 0]
    /\ UNCHANGED <<llm_client_instance, client_init_lock, constructions, initFailures,
                   received>>
    /\ UNCHANGED notClientVars

\* the outer "if llm_client_instance is None"
FirstCheck(c) ==
    /\ callerPc[c] = "first_check"
    /\ callerPc' = [callerPc EXCEPT ![c] =
                      IF llm_client_instance = 0 THEN "acquire" ELSE "return"]
    /\ UNCHANGED <<llm_client_instance, client_init_lock, callerClient, callerCalls,
                   constructions, initFailures, received>>
    /\ UNCHANGED notClientVars

\* async with client_init_lock: the caller proceeds once the lock is free
AcquireLock(c) ==
    /\ callerPc[c] = "acquire"
    /\ client_init_lock = 0
    /\ client_init_lock' = c
    /\ callerPc' = [callerPc EXCEPT ![c] = "second_check"]
    /\ UNCHANGED <<llm_client_instance, callerClient, callerCalls, constructions,
                   initFailures, received>>
    /\ UNCHANGED notClientVars

SecondCheck(c) ==
    /\ callerPc[c] = "second_check"
    /\ callerPc' = [callerPc EXCEPT ![c] =
                      IF second_check(llm_client_instance) THEN "construct" ELSE "release"]
    /\ UNCHANGED <<llm_client_instance, client_init_lock, callerClient, callerCalls,
                   constructions, initFailures, received>>
    /\ UNCHANGED notClientVars

\* client = LLMClient(model_type)
Construct(c) ==
    /\ callerPc[c] = "construct"
    /\ constructions' = constructions + 1
    /\ callerClient' = [callerClient EXCEPT ![c] = constructions + 1]
    /\ callerPc' = [callerPc EXCEPT ![c] = "assign"]
    /\ UNCHANGED <<llm_client_instance, client_init_lock, callerCalls, initFailures,
                   received>>
    /\ UNCHANGED notClientVars

\* the provider map or LLMClient(model_type) raises: the lock is released on the
\* way out and the call ends with the exception
ConstructRaises(c) ==
    /\ callerPc[c] = "construct"
    /\ initFailures < MaxInitFailures
    /\ initFailures' = initFailures + 1
    /\ client_init_lock' = 0
    /\ callerPc' = [callerPc EXCEPT ![c] = "idle"]
    /\ UNCHANGED <<llm_client_instance, callerClient, callerCalls, constructions,
                   received>>
    /\ UNCHANGED notClientVars

\* llm_client_instance = client
AssignInstance(c) ==
    /\ callerPc[c] = "assign"
    /\ llm_client_instance' = callerClient[c]
    /\ callerPc' = [callerPc EXCEPT ![c] = "release"]
    /\ UNCHANGED <<client_init_lock, callerClient, callerCalls, constructions,
                   initFailures, received>>
    /\ UNCHANGED notClientVars

\* the end of the async with block
ReleaseLock(c) ==
    /\ callerPc[c] = "release"
    /\ client_init_lock' = 0
    /\ callerPc' = [callerPc EXCEPT ![c] = "return"]
    /\ UNCHANGED <<llm_client_instance, callerClient, callerCalls, constructions,
                   initFailures, received>>
    /\ UNCHANGED notClientVars

\* return llm_client_instance
ReturnInstance(c) ==
    /\ callerPc[c] = "return"
    /\ received' = received \cup {llm_client_instance}
    /\ callerPc' = [callerPc EXCEPT ![c] = "idle"]
    /\ UNCHANGED <<llm_client_instance, client_init_lock, callerClient, callerCalls,
                   constructions, initFailures>>
    /\ UNCHANGED notClientVars

ClientNext ==
    \/ \E c \in Callers : CallGetLlmClient(c)
    \/ \E c \in Callers : FirstCheck(c)
    \/ \E c \in Callers : AcquireLock(c)
    \/ \E c \in Callers : SecondCheck(c)
    \/ \E c \in Callers : Construct(c)
    \/ \E c \in Callers : ConstructRaises(c)
    \/ \E c \in Callers : AssignInstance(c)
    \/ \E c \in Callers : ReleaseLock(c)
    \/ \E c \in Callers : ReturnInstance(c)

-----------------------------------------------------------------------------
(* services/client.py: chat_completion_json, and the json.loads of its callers *)

\* "<think>", "</think>"
ThinkOpen == <<60, 116, 104, 105, 110, 107, 62>>
ThinkClose == <<60, 47, 116, 104, 105, 110, 107, 62>>

\* "```json\n", "```\n", "\n```"
FenceJson == <<96, 96, 96, 106, 115, 111, 110, 10>>
FencePlain == <<96, 96, 96, 10>>
FenceEnd == <<10, 96, 96, 96>>

\* {"a":1} and {}: the JSON documents among the texts considered
JsonDocuments == {<<123, 34, 97, 34, 58, 49, 125>>, <<123, 125>>}

\* a completion wrapped in a code fence
Fenced(text) == FenceJson \o text \o FenceEnd

\* "<think>r</think>", "<THINK>r</THINK>\n"
ThinkBlock == ThinkOpen \o <<114>> \o ThinkClose
ThinkBlockUpper == <<60, 84, 72, 73, 78, 75, 62, 114, 60, 47, 84, 72, 73, 78, 75, 62, 10>>

CompletionPrefixes ==
    {<<>>, FenceJson, FencePlain, ThinkBlock, ThinkBlockUpper, ThinkOpen,
     ThinkBlock \o FenceJson}

\* the documents, a truncated object {"a": , plain text, nothing
CompletionBodies == JsonDocuments \cup {<<123, 34, 97, 34, 58>>, <<120>>, <<>>}

CompletionSuffixes == {<<>>, FenceEnd, <<10>>, ThinkClose}

Contents ==
    {p \o b \o x : p \in CompletionPrefixes, b \in CompletionBodies,
                   x \in CompletionSuffixes}

\* position of the first occurrence of pattern in text at or after i, else 0
FindFrom(text, pattern, i) ==
    LET hits == {j \in i..(Len(text) - Len(pattern) + 1) :
                    SubSeq(text, j, j + Len(pattern) - 1) = pattern}
    IN  IF hits = {} THEN 0 ELSE CHOOSE j \in hits : \A k \in hits : j <= k

\* re.sub(r'<think>[\s\S]*?</think>', '', content, flags=re.IGNORECASE), from i on
RECURSIVE RemoveThinkFrom(_, _)
RemoveThinkFrom(text, i) ==
    IF i > Len(text) THEN <<>>
    ELSE LET close == FindFrom(Lower(text), ThinkClose, i + Len(ThinkOpen)) IN
         IF /\ i + Len(ThinkOpen) - 1 <= Len(text)
            /\ SubSeq(Lower(text), i, i + Len(ThinkOpen) - 1) = ThinkOpen
            /\ close # 0
         THEN RemoveThinkFrom(text, close + Len(ThinkClose))
         ELSE <<text[i]>> \o RemoveThinkFrom(text, i + 1)

remove_think_blocks(text) == RemoveThinkFrom(text, 1)

\* json.loads skips blanks, tabs, line feeds and carriage returns around the document
IsJsonWhitespace(c) == c \in {32, 9, 10, 13}

RECURSIVE JsonLStrip(_)
JsonLStrip(text) ==
    IF text # <<>> /\ IsJsonWhitespace(Head(text)) THEN JsonLStrip(Tail(text)) ELSE text

RECURSIVE JsonRStrip(_)
JsonRStrip(text) ==
    IF text # <<>> /\ IsJsonWhitespace(text[Len(text)])
    THEN JsonRStrip(SubSeq(text, 1, Len(text) - 1)) ELSE text

\* json.loads on the texts considered: the document, or JSONDecodeError
json_loads(text) ==
    IF JsonLStrip(JsonRStrip(text)) \in JsonDocuments
    THEN [ok |-> TRUE, document |-> JsonLStrip(JsonRStrip(text))]
    ELSE [ok |-> FALSE, error |-> "JSONDecodeError"]

NotParsed == [ok |-> FALSE, error |-> "none"]

UnwrapIdle ==
    /\ unwrapPc = "idle"
    /\ raw_content = <<>>
    /\ cleaned_content = <<>>
    /\ parsed = NotParsed

\* chat_completion_json: the provider answers, the think blocks are removed and
\* the text is returned
CompletionReturns ==
    /\ unwrapPc = "idle"
    /\ \E text \in Contents :
        /\ raw_content' = text
        /\ cleaned_content' = remove_think_blocks(text)
    /\ unwrapPc' = "returned"
    /\ UNCHANGED parsed
    /\ UNCHANGED notUnwrapVars

\* chat_completion_json: the provider call raises and the exception is passed on
CompletionRaises ==
    /\ unwrapPc = "idle"
    /\ unwrapPc' = "raised"
    /\ UNCHANGED <<raw_content, cleaned_content, parsed>>
    /\ UNCHANGED notUnwrapVars

\* the caller's json.loads(response)
CallerParses ==
    /\ unwrapPc = "returned"
    /\ parsed' = json_loads(cleaned_content)
    /\ unwrapPc' = "parsed"
    /\ UNCHANGED <<raw_content, cleaned_content>>
    /\ UNCHANGED notUnwrapVars

UnwrapNext ==
    \/ CompletionReturns
    \/ CompletionRaises
    \/ CallerParses

-----------------------------------------------------------------------------
(* Specifications: one endpoint at a time *)

Init == GenIdle /\ FltIdle /\ ChatIdle /\ VqIdle /\ ClientIdle /\ UnwrapIdle

SpecGenerate == Init /\ [][GenNext]_vars

SpecFilter == Init /\ [][FltNext]_vars
SpecElicitation == Init /\ [][ChatNext]_vars
SpecVerifyQuestions == Init /\ [][VqNext]_vars
SpecClientInit == Init /\ [][ClientNext]_vars
SpecUnwrap == Init /\ [][UnwrapNext]_vars

-----------------------------------------------------------------------------
(* Claims about the generator *)

GenReturned == genPc = "done" /\ genResponse.status = 200

CaseInsensitiveName(threat) == Lower(threat.name)
NormalizedName(threat) == Strip(Lower(threat.name))

\* indices of the first occurrence of each name class in the merged list
FirstOccurrences(threats, NameOf(_)) ==
    {i \in DOMAIN threats : \A j \in 1..(i - 1) : NameOf(threats[j]) # NameOf(threats[i])}

\* `unique` is `threats` restricted to the first occurrence of each name class
KeepsFirstPerName(threats, unique, NameOf(_)) ==
    LET first == FirstOccurrences(threats, NameOf) IN
    /\ Len(unique) = Cardinality(first)
    /\ \A k \in DOMAIN unique :
          unique[k] = threats[CHOOSE i \in first : Cardinality({j \in first : j <= i}) = k]
    /\ \A i \in DOMAIN threats :
          Cardinality({k \in DOMAIN unique : NameOf(unique[k]) = NameOf(threats[i])}) = 1

\* C2 (as stated): the deduplicated list holds exactly one chain per
\* case-insensitive name, the first occurrence in merge order, in merge order.
C2_OnePerCaseInsensitiveName ==
    GenReturned => KeepsFirstPerName(all_threats, unique_threats, CaseInsensitiveName)

\* C2 (amended): the deduplicated list holds exactly one chain per name compared
\* case-insensitively after trimming surrounding whitespace, the first occurrence
\* in merge order, in merge order.
C2_OnePerNormalizedName ==
    GenReturned => KeepsFirstPerName(all_threats, unique_threats, NormalizedName)

\* a merge with a case collision and a whitespace collision, both deduplicated
C2_Witness ==
    /\ GenReturned
    /\ \E i, j \in DOMAIN all_threats :
          /\ i < j
          /\ all_threats[i].name # all_threats[j].name
          /\ Lower(all_threats[i].name) = Lower(all_threats[j].name)
    /\ \E i, j \in DOMAIN all_threats :
          /\ i < j
          /\ Lower(all_threats[i].name) # Lower(all_threats[j].name)
          /\ NormalizedName(all_threats[i]) = NormalizedName(all_threats[j])
    /\ Len(unique_threats) < Len(all_threats)

\* offset of strategy s's chains in the merged list
RECURSIVE SuccessfulBefore(_)
SuccessfulBefore(s) ==
    IF s = 1 THEN 0
    ELSE SuccessfulBefore(s - 1)
         + (IF threat_results[s - 1].kind = "list" THEN Len(threat_results[s - 1].chains) ELSE 0)

\* C3: when strategies raise, the operation still returns, every chain of every
\* strategy that did not raise is in the merged list (in task order), and the
\* strategies that raised contribute nothing.
C3_FanOutFaultTolerance ==
    (genPc = "done" /\ genTasks > 0) =>
        /\ genResponse.status = 200
        /\ Len(all_threats) = SuccessfulBefore(Len(Strategies) + 1)
        /\ \A s \in DOMAIN Strategies :
              threat_results[s].kind = "list" =>
                  SubSeq(all_threats, SuccessfulBefore(s) + 1,
                         SuccessfulBefore(s) + Len(threat_results[s].chains))
                      = threat_results[s].chains

\* exactly one strategy raised and the three others returned chains
C3_Witness ==
    /\ GenReturned
    /\ Cardinality({s \in DOMAIN Strategies : threat_results[s].kind = "exception"}) = 1
    /\ IsException(threat_results[2])
    /\ \A s \in DOMAIN Strategies \ {2} :
          threat_results[s].kind = "list" /\ threat_results[s].chains # <<>>

\* C6: a request with no attacker, no entry point and no asset is rejected with
\* no strategy coroutine created, no provider call issued and no chain returned.
EmptyContext(request) ==
    request.attackers + request.entry_points + request.assets = 0

C6_EmptyContextRejected ==
    (genPc # "idle" /\ EmptyContext(genRequest)) =>
        /\ genPc = "done"
        /\ genTasks = 0
        /\ genCalls = 0
        /\ genResponse.status # 200
        /\ "threat_chains" \notin DOMAIN genResponse

C6_Witness ==
    genPc = "done" /\ EmptyContext(genRequest) /\ genResponse.status = 500

\* position of a chain in the deduplicated list (its names are pairwise distinct)
MergePosition(threat) == CHOOSE k \in DOMAIN unique_threats : unique_threats[k] = threat

\* C7: the ranked list is the deduplicated list sorted by score, highest first,
\* chains of equal score in merge order; ranking the same list again gives the
\* same order.
C7_RankingOrder ==
    GenReturned =>
        /\ Len(sorted_threats) = Len(unique_threats)
        /\ Range(sorted_threats) = Range(unique_threats)
        /\ \A i, j \in DOMAIN sorted_threats :
              i < j =>
                /\ threat_score(sorted_threats[i]) >= threat_score(sorted_threats[j])
                /\ threat_score(sorted_threats[i]) = threat_score(sorted_threats[j])
                      => MergePosition(sorted_threats[i]) < MergePosition(sorted_threats[j])
        /\ prioritize_threats(unique_threats) = sorted_threats

\* a merge that is not already ranked and holds two chains of equal score
C7_Witness ==
    /\ GenReturned
    /\ sorted_threats # unique_threats
    /\ \E i, j \in DOMAIN unique_threats :
          i < j /\ threat_score(unique_threats[i]) = threat_score(unique_threats[j])

\* C8: at most 15 chains are returned, and they are the head of the ranked list.
C8_TopFifteen ==
    GenReturned =>
        /\ Len(genResponse.threat_chains) <= 15
        /\ Len(genResponse.threat_chains) = Min(Len(sorted_threats), 15)
        /\ \A k \in DOMAIN genResponse.threat_chains :
              genResponse.threat_chains[k] = sorted_threats[k]

\* more than 15 unique chains were generated
C8_Witness == GenReturned /\ Len(unique_threats) > 15

-----------------------------------------------------------------------------
(* Claims about the verifier *)

FltReturned == fltPc = "done" /\ fltResponse.status = 200

\* some answer of the request names the chain
HasAnswers(threat) ==
    \E k \in DOMAIN fltRequest.verification_answers :
        fltRequest.verification_answers[k].threat_name = threat.name

\* C4: for a chain with at least one answer, kept is true exactly when the
\* assessed plausibility score is at least 0.3 (3000 ten-thousandths).
C4_ThresholdBoundary ==
    \A k \in DOMAIN filtered_threats :
        HasAnswers(filtered_threats[k].threat_chain) =>
            (filtered_threats[k].kept <=> filtered_threats[k].plausibility_score >= 3000)

\* a response with an assessed chain at exactly 0.3, kept, and one at 0.2999, dropped
C4_Witness ==
    /\ FltReturned
    /\ \E k \in DOMAIN fltResponse.filtered_threats :
        LET ft == fltResponse.filtered_threats[k] IN
        HasAnswers(ft.threat_chain) /\ ft.plausibility_score = 3000 /\ ft.kept
    /\ \E k \in DOMAIN fltResponse.filtered_threats :
        LET ft == fltResponse.filtered_threats[k] IN
        HasAnswers(ft.threat_chain) /\ ft.plausibility_score = 2999 /\ ~ft.kept

\* C5: a chain no answer names gets score 0.5 and kept = true, and no provider
\* call is issued for it.
C5_NoAnswersDefault ==
    /\ \A k \in DOMAIN filtered_threats :
        ~HasAnswers(filtered_threats[k].threat_chain) =>
            filtered_threats[k].plausibility_score = 5000 /\ filtered_threats[k].kept
    /\ \A i \in fltCalledFor : HasAnswers(fltRequest.threat_chains[i])
    /\ FltReturned =>
        /\ Len(fltResponse.filtered_threats) = Len(fltRequest.threat_chains)
        /\ fltCalledFor = {i \in DOMAIN fltRequest.threat_chains :
                              HasAnswers(fltRequest.threat_chains[i])}

\* a response to a request with answers, in which one chain has none and
\* another was assessed away from the neutral score
C5_Witness ==
    /\ FltReturned
    /\ fltRequest.verification_answers # <<>>
    /\ \E k \in DOMAIN fltResponse.filtered_threats :
        ~HasAnswers(fltResponse.filtered_threats[k].threat_chain)
    /\ \E k \in DOMAIN fltResponse.filtered_threats :
        /\ HasAnswers(fltResponse.filtered_threats[k].threat_chain)
        /\ fltResponse.filtered_threats[k].plausibility_score # 5000

\* C9: the list the filter operation returns is in descending order of
\* plausibility score.
C9_FilterSortedDescending ==
    FltReturned =>
        \A i, j \in DOMAIN fltResponse.filtered_threats :
            i < j => fltResponse.filtered_threats[i].plausibility_score
                       >= fltResponse.filtered_threats[j].plausibility_score

\* a response mixing a defaulted chain with assessed ones above and below it,
\* whose first entry is not the request's first chain
C9_Witness ==
    /\ FltReturned
    /\ \E k \in DOMAIN fltResponse.filtered_threats :
        fltResponse.filtered_threats[k].reasoning = "no_answers"
    /\ \E k \in DOMAIN fltResponse.filtered_threats :
        fltResponse.filtered_threats[k].plausibility_score > 5000
    /\ \E k \in DOMAIN fltResponse.filtered_threats :
        fltResponse.filtered_threats[k].plausibility_score < 5000
    /\ fltResponse.filtered_threats[1].threat_chain # fltRequest.threat_chains[1]

C22_EmptyContextRejectedFirst ==
    (fltPc # "idle" /\ InsufficientContext(fltRequest.context)) =>
        /\ fltPc = "done"
        /\ fltResponse.status # 200
        /\ fltCalledFor = {}
        /\ filtered_threats = <<>>

\* how often a chain occurs in a list of chains
Occurrences(chains, chain) == Cardinality({k \in DOMAIN chains : chains[k] = chain})

\* the chains a filter response carries, in its order
ResponseChains ==
    [k \in DOMAIN fltResponse.filtered_threats |->
        fltResponse.filtered_threats[k].threat_chain]

\* no answer of the request names a chain of the request
NoAnswerNamesAChain ==
    \A k \in DOMAIN fltRequest.threat_chains : ~HasAnswers(fltRequest.threat_chains[k])

\* C28: the verifier never edits or loses chains. A filter response carries each
\* chain of the request, unchanged, exactly as often as the request holds it
\* (a permutation of the input, chains of equal name included), and answers that
\* name no chain of the request affect no chain: every chain is then kept at the
\* neutral score without a provider call.
C28_FilterOutputIsPermutation ==
    FltReturned =>
        /\ Len(ResponseChains) = Len(fltRequest.threat_chains)
        /\ \A chain \in Range(fltRequest.threat_chains) \cup Range(ResponseChains) :
              Occurrences(ResponseChains, chain) =
                  Occurrences(fltRequest.threat_chains, chain)
        /\ NoAnswerNamesAChain =>
              /\ fltCalledFor = {}
              /\ \A k \in DOMAIN fltResponse.filtered_threats :
                    /\ fltResponse.filtered_threats[k].plausibility_score = 5000
                    /\ fltResponse.filtered_threats[k].kept

\* a response to a request that holds the same chain twice, next to an answer
\* naming no chain: both copies are returned, assessed differently, and the
\* order is no longer the request's
C28_Witness ==
    /\ FltReturned
    /\ \E i, j \in DOMAIN fltRequest.threat_chains :
          i < j /\ fltRequest.threat_chains[i] = fltRequest.threat_chains[j]
    /\ \E k \in DOMAIN fltRequest.verification_answers :
          \A i \in DOMAIN fltRequest.threat_chains :
              fltRequest.verification_answers[k].threat_name
                  # fltRequest.threat_chains[i].name
    /\ \E i, j \in DOMAIN fltResponse.filtered_threats :
          /\ fltResponse.filtered_threats[i].threat_chain
                = fltResponse.filtered_threats[j].threat_chain
          /\ fltResponse.filtered_threats[i].plausibility_score
                # fltResponse.filtered_threats[j].plausibility_score
    /\ ResponseChains # fltRequest.threat_chains

\* C29: in every filter response kept_count + removed_count is the number of
\* filtered threats, which is the number of chains of the request; kept_count is
\* the number of entries with kept = true (and removed_count that of the others).
C29_CountsAddUp ==
    FltReturned =>
        LET entries == fltResponse.filtered_threats IN
        /\ fltResponse.kept_count + fltResponse.removed_count = Len(entries)
        /\ Len(entries) = Len(fltRequest.threat_chains)
        /\ fltResponse.kept_count = Cardinality({k \in DOMAIN entries : entries[k].kept})
        /\ fltResponse.removed_count
              = Cardinality({k \in DOMAIN entries : ~entries[k].kept})

\* a response with two equal kept entries and a removed one
C29_Witness ==
    /\ FltReturned
    /\ fltResponse.kept_count = 2
    /\ fltResponse.removed_count = 1
    /\ \E i, j \in DOMAIN fltResponse.filtered_threats :
          i < j /\ fltResponse.filtered_threats[i] = fltResponse.filtered_threats[j]
                /\ fltResponse.filtered_threats[i].kept

-----------------------------------------------------------------------------
(* Claims about the elicitation endpoints (SpecElicitation) *)

ChatReturned == chatPc = "done"

\* C1: whenever a response carries question/answer sequences -- the "success"
\* response of a follow-up turn, or the result of context enumeration -- the two
\* sequences have the same length, whatever qa_pairs or JSON the provider returned.
C1_QuestionsMatchAnswers ==
    (ChatReturned /\ chatResponse.status \in {"success", "enumerated"})
        => Len(chatResponse.questions) = Len(chatResponse.answers)

\* the questions a response puts to the caller
QuestionSet(response) == <<response.multiple_choice_questions, response.questions>>

\* C10: with a provider whose completion is a function of the prompt, the same
\* refine request (architecture text, history, structured answers, multiple-choice
\* answers) submitted twice in a row is answered with the same question sets.
C10_ResubmissionIdempotent ==
    (/\ providerStubbed
     /\ ChatReturned
     /\ chatRequest.endpoint = "refine"
     /\ chatRequest = prevRequest
     /\ chatResponse.status # "error"
     /\ prevResponse.status # "error")
        => QuestionSet(chatResponse) = QuestionSet(prevResponse)

IsFollowupTurn(request) ==
    request.endpoint = "refine" /\ Len(request.conversation_history) > 0

\* C11: no cross-call state. The first prompt of a follow-up turn is sent before
\* any reply of that turn, so it may depend on the request alone: when the same
\* request is served twice in a row, both turns start with the same prompt.
C11_FirstPromptFromRequestAlone ==
    (/\ IsFollowupTurn(chatRequest)
     /\ chatRequest = prevRequest
     /\ chatPrompts # <<>>
     /\ prevPrompts # <<>>)
        => chatPrompts[1] = prevPrompts[1]

\* a follow-up history without an assistant turn, or without a user turn
NoTurnOf(request, role) ==
    \A k \in DOMAIN request.conversation_history :
        request.conversation_history[k].role # role

InvalidConversation(request) ==
    IsFollowupTurn(request) /\ (NoTurnOf(request, "assistant") \/ NoTurnOf(request, "user"))

\* C12: a follow-up turn whose history has no assistant turn, or no user turn, is
\* answered with an error at once: no provider call is made in that turn.
C12_InvalidConversationRejected ==
    (chatPc # "idle" /\ InvalidConversation(chatRequest))
        => (ChatReturned /\ chatResponse.status = "error" /\ chatPrompts = <<>>)

C12_Witness ==
    /\ ChatReturned
    /\ IsFollowupTurn(chatRequest)
    /\ NoTurnOf(chatRequest, "assistant")
    /\ ~NoTurnOf(chatRequest, "user")
    /\ chatResponse.status = "error"
    /\ chatReplies = <<>>

\* a request that continues a conversation: it carries answers to earlier questions
Continues(request) ==
    /\ request.endpoint = "refine"
    /\ (request.structured_answers # <<>> \/ request.multiple_choice_answers # <<>>)

\* C13: a request that continues a conversation with an empty history is refused
\* as an invalid conversation state; it is not served as the start of a new
\* conversation and it causes no provider call.
C13_EmptyHistoryContinuationRejected ==
    (ChatReturned /\ Continues(chatRequest) /\ chatRequest.conversation_history = <<>>)
        => (chatResponse.status = "error" /\ chatPrompts = <<>>)

\* a provider call of the turn failed: no completion, or one that is no JSON
ProviderFailed ==
    \E k \in DOMAIN chatReplies : chatReplies[k].kind \in {"unreachable", "not_json"}

\* C14: when a provider call of an elicitation turn fails or yields unparseable
\* output, the turn ends in an error and leaves the last-questions map as it
\* found it; so too when every attack-type sub-task of the initial turn fails.
C14_FailedTurnAborts ==
    (ChatReturned /\ chatRequest.endpoint = "refine" /\ ProviderFailed)
        => (chatResponse.status = "error" /\ last_questions_by_dfd = mapBefore)

\* the flag as the extraction completion declares it; absent, it counts as true
DeclaredNeedsFollowup(reply) ==
    IF "coverage_assessment" \notin DOMAIN reply.data THEN TRUE
    ELSE IF "needs_followup" \notin DOMAIN reply.data.coverage_assessment THEN TRUE
    ELSE reply.data.coverage_assessment.needs_followup

\* C15: a follow-up turn that returns does so with "success" exactly when the
\* extraction completion declared needs_followup = false, and with
\* "need_more_info" otherwise, a missing flag counting as true; the initial turn
\* never returns "success".
C15_NeedsFollowupTrusted ==
    (ChatReturned /\ chatRequest.endpoint = "refine" /\ chatResponse.status # "error")
        => /\ chatResponse.status \in {"success", "need_more_info"}
           /\ IsFollowupTurn(chatRequest) =>
                (chatResponse.status = "success" <=> ~DeclaredNeedsFollowup(chatReplies[1]))
           /\ ~IsFollowupTurn(chatRequest) => chatResponse.status = "need_more_info"

C15_Witness ==
    /\ ChatReturned
    /\ IsFollowupTurn(chatRequest)
    /\ chatResponse.status = "success"
    /\ ~DeclaredNeedsFollowup(chatReplies[1])

\* the records of an extraction batch that make a StructuredAnswer, in order
ValidExtractions(reply) ==
    SelectSeq(Get(reply.data, "extractions", <<>>),
              LAMBDA ext : {"question", "extracted_answer"} \subseteq DOMAIN ext)

HasInvalidExtraction(reply) ==
    Len(ValidExtractions(reply)) < Len(Get(reply.data, "extractions", <<>>))

\* C16: record-level tolerance. When the extraction batch of a follow-up turn
\* holds an invalid record and no provider call of the turn failed, the turn is
\* not aborted: it returns the structured answers submitted with the request
\* followed by the valid records of the batch.
C16_InvalidRecordDropped ==
    (/\ ChatReturned
     /\ IsFollowupTurn(chatRequest)
     /\ chatReplies # <<>>
     /\ ~ProviderFailed
     /\ HasInvalidExtraction(chatReplies[1]))
        => /\ chatResponse.status # "error"
           /\ chatResponse.structured_answers =
                chatRequest.structured_answers \o ValidExtractions(chatReplies[1])

\* C24: structured answers are only appended. Every follow-up turn that returns
\* need_more_info or success carries the structured answers submitted with the
\* request, unchanged and in order, followed by the answers extracted in this
\* turn, in order, with nothing removed even when an answer repeats.
C24_StructuredAnswersAppended ==
    (/\ ChatReturned
     /\ IsFollowupTurn(chatRequest)
     /\ chatResponse.status \in {"need_more_info", "success"})
        => /\ Len(chatReplies) >= 2
           /\ chatResponse.structured_answers =
                chatRequest.structured_answers
                \o Get(chatReplies[1].data, "extractions", <<>>)

\* a successful follow-up turn whose extraction repeated the answer submitted
\* with the request: the answer is in the response twice
C24_Witness ==
    /\ ChatReturned
    /\ IsFollowupTurn(chatRequest)
    /\ chatResponse.status = "success"
    /\ chatResponse.structured_answers = <<PriorAnswer, ExtractedAnswer, PriorAnswer>>

\* the reply the provider gave to a prompt of this turn
ReplyTo(prompt) == chatReplies[CHOOSE k \in DOMAIN chatPrompts : chatPrompts[k] = prompt]

\* the raw questions of attack type t, none if its call failed
QuestionsOfAttackType(t) ==
    LET reply == ReplyTo(attack_prompt(t, chatRequest)) IN
    IF Raises(reply) THEN <<>> ELSE Get(reply.data, "questions_with_options", <<>>)

RECURSIVE QuestionsByAttackType(_)
QuestionsByAttackType(t) ==
    IF t > Len(AttackTypes) THEN <<>>
    ELSE QuestionsOfAttackType(t) \o QuestionsByAttackType(t + 1)

\* the turn was answered from the per-attack-type calls alone
AnsweredByModularCalls ==
    /\ ChatReturned
    /\ chatRequest.endpoint = "refine"
    /\ Len(chatRequest.conversation_history) = 0
    /\ chatResponse.status = "need_more_info"
    /\ Len(chatPrompts) = Len(AttackTypes)

\* the questions of the per-attack-type calls are returned grouped in the order
\* of the attack types, in whatever order the calls completed
C25_ModularInAttackTypeOrder ==
    AnsweredByModularCalls =>
        chatResponse.multiple_choice_questions =
            multiple_choice_questions(QuestionsByAttackType(1))

RECURSIVE QuestionsByChain(_)
QuestionsByChain(i) ==
    IF i > Len(vqReplies) THEN <<>>
    ELSE threat_questions(vqReplies[i], vqRequest.threat_chains[i]) \o QuestionsByChain(i + 1)

\* verification questions are returned grouped in the order of the input chains
C25_VerificationInChainOrder ==
    (vqPc = "done" /\ vqResponse.status = 200) =>
        /\ Len(vqReplies) = Len(vqRequest.threat_chains)
        /\ vqResponse.verification_questions = QuestionsByChain(1)

\* C25: fan-in aggregation follows task submission order, not completion order:
\* modular elicitation questions are grouped in the order of the attack types and
\* verification questions in the order of the input chains, for every order in
\* which the provider calls complete.
C25_FanInBySubmissionOrder ==
    C25_ModularInAttackTypeOrder /\ C25_VerificationInChainOrder

\* the call of the second attack type completed first, both calls returned
\* different questions, and the response lists those of the first type first
C25_Witness ==
    /\ AnsweredByModularCalls
    /\ chatPrompts[1] = attack_prompt(2, chatRequest)
    /\ QuestionsOfAttackType(1) = <<QuestionA>>
    /\ QuestionsOfAttackType(2) = <<QuestionB, QuestionF>>
    /\ chatResponse.multiple_choice_questions =
         multiple_choice_questions(<<QuestionA, QuestionB, QuestionF>>)

\* an initial turn has returned and the provider call of every attack type failed
EveryModularCallFailed ==
    /\ ChatReturned
    /\ chatRequest.endpoint = "refine"
    /\ Len(chatRequest.conversation_history) = 0
    /\ \A t \in DOMAIN AttackTypes : Raises(ReplyTo(attack_prompt(t, chatRequest)))

\* C26: when the provider call of every attack-type sub-task of an initial turn
\* fails, the turn falls back to the legacy single-prompt question generation: the
\* legacy prompt is sent, and a need_more_info response carries the questions of
\* its reply.
C26_FailedModularFallsBackToLegacy ==
    EveryModularCallFailed =>
        /\ \E k \in DOMAIN chatPrompts :
              chatPrompts[k] = question_generation_prompt(chatRequest)
        /\ chatResponse.status = "need_more_info" =>
              chatResponse.multiple_choice_questions =
                  multiple_choice_questions(
                      Get(ReplyTo(question_generation_prompt(chatRequest)).data,
                          "questions_with_options", <<>>))

\* a request is being served
TurnInProgress == chatPc \notin {"idle", "done"}

\* C30: the process-wide last-questions map is written only when a turn returns
\* need_more_info, and then the entry of the request's architecture text is
\* exactly the list of multiple-choice questions of the response; while a turn is
\* served, and when it returns success or ends in an error, the map is what it
\* was when the request arrived; entries of other architecture texts never change.
C30_MapWrittenOnlyWithQuestions ==
    /\ TurnInProgress => last_questions_by_dfd = mapBefore
    /\ (ChatReturned /\ chatResponse.status # "need_more_info")
          => last_questions_by_dfd = mapBefore
    /\ (ChatReturned /\ chatResponse.status = "need_more_info")
          => /\ DOMAIN last_questions_by_dfd
                  = DOMAIN mapBefore \cup {chatRequest.textual_dfd}
             /\ last_questions_by_dfd[chatRequest.textual_dfd]
                  = chatResponse.multiple_choice_questions
             /\ \A d \in DOMAIN mapBefore :
                   d # chatRequest.textual_dfd => last_questions_by_dfd[d] = mapBefore[d]

\* a follow-up turn on one architecture text has returned need_more_info with
\* questions while the map held questions of the other text, which are still there
C30_Witness ==
    /\ ChatReturned
    /\ IsFollowupTurn(chatRequest)
    /\ chatResponse.status = "need_more_info"
    /\ chatResponse.multiple_choice_questions # <<>>
    /\ \E d \in DOMAIN mapBefore :
          /\ d # chatRequest.textual_dfd
          /\ mapBefore[d] # <<>>
          /\ last_questions_by_dfd[d] = mapBefore[d]

-----------------------------------------------------------------------------
(* Further claims about the generator (SpecGenerate) *)

\* C19: when the provider is unreachable for every generation strategy, the
\* operation ends in an explicit error: the caller gets no successful response
\* with an empty or partial list of chains.
C19_AllStrategiesFailIsError ==
    (/\ GenReturned
     /\ genTasks > 0
     /\ \A s \in DOMAIN Strategies :
          threat_results[s] = [kind |-> "exception", exception |-> "unreachable"])
        => genResponse.status # 200

\* C23: a generation request rejected for insufficient context is answered with
\* the input-validation status 400, not with the status 500 of internal and
\* provider failures.
C23_ValidationRejectionIs400 ==
    (genPc = "done" /\ InsufficientContext(genRequest)) => genResponse.status = 400

\* the weights of the claim, in hundredths
WeightTable ==
    [information_disclosure |-> 100, tampering |-> 90, elevation_of_privilege |-> 80,
     denial_of_service |-> 70, spoofing |-> 60, repudiation |-> 50, other |-> 40]

\* the ML keywords occurring in the name or in the description, case-insensitively
KeywordHits(threat) ==
    Cardinality({kw \in ml_keywords :
                    \/ Contains(Lower(threat.name), kw)
                    \/ Contains(Lower(threat.description), kw)})

Capped(x, cap) == IF x > cap THEN cap ELSE x

ExpectedScore(threat) ==
    WeightTable[threat.category]
    + Capped(10 * Len(threat.chain), 50)
    + Capped(5 * Len(threat.mitigations), 30)
    + Capped(10 * KeywordHits(threat), 40)

\* C27: the ranking score of a chain is its category weight (1.0, 0.9, 0.8, 0.7,
\* 0.6, 0.5, 0.4 from information_disclosure down to other) + min(0.1 x chain
\* length, 0.5) + min(0.05 x mitigation count, 0.3) + min(0.1 x ML keywords
\* occurring in name and description, 0.4); it lies between 0.4 and 2.2 and does
\* not decrease when chain length, mitigation count and keyword hits grow.
C27_RankingScoreFormula ==
    GenReturned =>
        /\ DOMAIN threat_scores = DOMAIN unique_threats
        /\ \A k \in DOMAIN unique_threats :
            /\ threat_scores[k] = ExpectedScore(unique_threats[k])
            /\ threat_scores[k] >= 40
            /\ threat_scores[k] <= 220
            /\ \A j \in DOMAIN unique_threats :
                (/\ unique_threats[k].category = unique_threats[j].category
                 /\ Len(unique_threats[k].chain) <= Len(unique_threats[j].chain)
                 /\ Len(unique_threats[k].mitigations) <= Len(unique_threats[j].mitigations)
                 /\ KeywordHits(unique_threats[k]) <= KeywordHits(unique_threats[j]))
                    => threat_scores[k] <= threat_scores[j]

\* a ranking over chains of every category in which each of the three caps is
\* exceeded: a chain of six steps, one with seven mitigations, one with five
\* keyword hits
C27_Witness ==
    /\ GenReturned
    /\ {unique_threats[k].category : k \in DOMAIN unique_threats} = ThreatCategory
    /\ \E k \in DOMAIN unique_threats : Len(unique_threats[k].chain) > 5
    /\ \E k \in DOMAIN unique_threats : Len(unique_threats[k].mitigations) > 6
    /\ \E k \in DOMAIN unique_threats : KeywordHits(unique_threats[k]) > 4

-----------------------------------------------------------------------------
(* Claims about verification-question generation (SpecVerifyQuestions) *)

\* the chains asked about whose questions were produced
RECURSIVE QuestionsOfSucceeded(_)
QuestionsOfSucceeded(i) ==
    IF i > Len(vqReplies) THEN <<>>
    ELSE (IF QuestionsForThreatRaise(vqReplies[i]) THEN <<>>
          ELSE threat_questions(vqReplies[i], vqRequest.threat_chains[i]))
         \o QuestionsOfSucceeded(i + 1)

\* C18: when producing the questions of one chain fails, the other chains are
\* still asked about and the questions of the chains that succeeded are
\* returned.
C18_QuestionFanOutTolerance ==
    (/\ vqPc = "done"
     /\ \E i \in DOMAIN vqReplies : QuestionsForThreatRaise(vqReplies[i]))
        => /\ Len(vqReplies) = Len(vqRequest.threat_chains)
           /\ vqResponse.status = 200
           /\ vqResponse.verification_questions = QuestionsOfSucceeded(1)

-----------------------------------------------------------------------------
(* Claims about the provider client (SpecClientInit) *)

\* C17: however the first callers of get_llm_client interleave, at most one
\* client is ever constructed; every handle a caller receives is that client,
\* which is then the module-level handle; once a caller has received it, it has
\* been constructed exactly once.
C17_SingleInitialization ==
    /\ constructions <= 1
    /\ received \subseteq {1}
    /\ received # {} => (constructions = 1 /\ llm_client_instance = 1)

\* a caller that saw no client at the first check and waited for the lock finds
\* the client at the second check, while another caller still waits for the lock
C17_Witness ==
    \E c, w \in Callers :
        /\ c # w
        /\ callerPc[c] = "release"
        /\ callerClient[c] = 0
        /\ callerPc[w] = "acquire"
        /\ llm_client_instance = 1
        /\ 1 \in received

-----------------------------------------------------------------------------
(* Claims about completion unwrapping (SpecUnwrap) *)

\* C20: the text handed to the JSON parser has code fences and reasoning blocks
\* removed: a completion made of a fenced JSON object is parsed as exactly that
\* object.
C20_FencedObjectExtracted ==
    unwrapPc = "parsed" =>
        \A doc \in JsonDocuments :
            raw_content = Fenced(doc) => parsed = [ok |-> TRUE, document |-> doc]

====
